---- MODULE Spec2Model ----
(***************************************************************************)
(* Model of package httpx (ghoseb/bb): the resilient HTTP client.          *)
(* One caller issues Do calls one after the other on one Client; the       *)
(* server, the network, the clock and the caller's context are the         *)
(* environment.                                                            *)
(***************************************************************************)
EXTENDS Integers, Sequences, FiniteSets, TLC

\* ---------------------------------------------------------------- bounds
\* Largest Options.Retry.MaxAttempts the caller configures (0 = default).
MaxM == 2
\* Number of Do calls one behaviour issues on the client.
MaxCalls == 2
\* The wall clock (seconds) saturates here.
MaxNow == 1
\* Longest errors list of an error envelope.
MaxEntries == 2
\* Most pull requests ListPullRequests returns to runList.
MaxPRs == 6
\* Do calls each goroutine makes on the shared client.
MaxGets == 2

\* ------------------------------------------------------ program constants
DefaultMaxAttempts == 3
\* Durations of the retry policy are milliseconds.
DefaultInitialBackoff == 200
DefaultMaxBackoff == 2000
\* Cap of one adaptive throttle sleep, seconds.
ThrottleCap == 5
\* Capacity of the channel sem of runList.
MaxConcurrent == 5
StatusOK == 200
StatusNotModified == 304
StatusNotFound == 404
StatusTooManyRequests == 429
StatusInternalServerError == 500

\* ------------------------------------------------------------- universes
Methods == {"GET", "POST", "DELETE"}
URLs == {"/a"}
\* The value v given to Do: nil, an io.Writer, or a pointer to a JSON value.
Targets == {"nil", "writer", "json"}
\* Response bodies (raw bytes).
BodyOk == "{\"message\":\"ok\"}"
BodyOkLn == "{\"message\":\"ok\"}\n"
BodyHi == "{\"message\":\"hi\"}"
BodyBad == "oops\n"
BodyErr == "{\"errors\":[{\"message\":\"boom\"}]}"
NetErrs == {"dial", "reset"}
Causes == {"Canceled", "DeadlineExceeded"}

Min(a, b) == IF a < b THEN a ELSE b

RECURSIVE Pow2(_)
Pow2(n) == IF n <= 0 THEN 1 ELSE 2 * Pow2(n - 1)

VARIABLES
  enableCache,  \* Client.enableCache
  maxAttempts,  \* Client.retry.MaxAttempts
  cache,        \* Client.cache: cacheKey -> entry
  rate,         \* Client.rate
  now,          \* wall clock, seconds
  pc,           \* position of the caller inside DoWithHeaders
  req,          \* the request given to Do
  v,            \* the output target given to Do
  ctxErr,       \* req.Context().Err(): "" while the context is live
  attempts,     \* local attempts of DoWithHeaders
  inm,          \* If-None-Match header of the attempt sent last
  resp,         \* response of the last attempt (status 0: none)
  netErr,       \* transport error of the last attempt ("" : none)
  delay,        \* duration of the backoff timer armed last, ms
  sleep,        \* duration of the throttle sleep taken last, seconds
  result,       \* error value returned by Do
  out,          \* what the caller's target received
  netCalls,     \* history: httpClient.Do invocations of this Do call
  fails,        \* history: attempts of this call ended by error/429/5xx
  calls,        \* history: Do calls started
  prevGet       \* history: per URL, the previous cached GET's outcome

\* State of the retry-policy computation (backoff alone, any RetryPolicy).
VARIABLES
  retry,        \* Client.retry: MaxAttempts, InitialBackoff, MaxBackoff
  tries,        \* attempts as backoff receives it: failed attempts so far
  lastResp,     \* the response given to backoff: nil, or its Retry-After
  armed         \* delay as backoff computed it last, int64 nanoseconds

\* State of one request's body across the attempts of a Do call.
VARIABLES
  built,        \* the request a builder returned: its kind and stored payload
  bodyPos,      \* offset of the reader that is attemptReq.Body
  wire,         \* what the transport read from attemptReq.Body this attempt
  rpc,          \* position: "new", "loop", "sending", "done"
  sends         \* attempts started

\* State of the rate-limit record under its mutex, goroutine by goroutine.
VARIABLES
  curRate,      \* Client.rate, written and copied one field at a time
  rateMu,       \* Client.rateMu: the writer holding it, the readers holding it
  gor,          \* per goroutine: its role, position and locals
  clock         \* wall clock, seconds

\* State of the request builders' URL resolution.
VARIABLES
  basePath,     \* Client.baseURL.Path
  reqURL        \* the path argument and the URL the builder gave the request

\* State of one NewMultipartRequest call, and of the request it returns.
VARIABLES
  mpFiles,      \* the files argument: FieldName, FileName, Reader per file
  fileReads,    \* per file, the Read calls made on its Reader
  mw,           \* the multipart writer: its boundary and what it wrote to buf
  fileIdx,      \* index of the range loop over files
  mpc,          \* position: "new", "range", "copy", "returned"
  mpResult,     \* what the call returned: the request's payload, or the error
  mpNet         \* network calls made with the returned request

\* State of one decodeError call.
VARIABLES
  errResp,      \* the response: status, the body sent, whether reading it fails
  errPath,      \* how Do came to decodeError: "direct", "exhausted" ("": not yet)
  errOut        \* the error decodeError returned

\* State of the pull-request list command's diff-stat fan-out (runList).
VARIABLES
  items,        \* items: per pull request its ID and Files, Additions, Deletions
  sem,          \* tokens in the channel sem
  mu,           \* the mutex mu: 0, or the index of the goroutine holding it
  fetch,        \* per item, where its goroutine is: "none", "fetching",
                \*   "fetched", "locked", "ok", "failed"
  loopI,        \* the index the range loop of runList is at
  listPc,       \* runList's position: "range", "wait", "output", "error"
  gErr,         \* the errgroup's first error: TRUE once a goroutine returned one
  warnings      \* IDs of the pull requests a warning was written for

\* State of the Do calls several goroutines make on one client with a cache.
VARIABLES
  task          \* per goroutine: its position in Do and the locals of the call

clientVars == <<enableCache, maxAttempts, cache, rate>>
callVars == <<pc, req, v, attempts, inm, resp, netErr, delay, sleep, result, out>>
histVars == <<netCalls, fails, calls, prevGet>>
doVars == <<clientVars, now, ctxErr, callVars, histVars>>
backoffVars == <<retry, tries, lastResp, armed>>
replayVars == <<built, bodyPos, wire, rpc, sends>>
rateVars == <<curRate, rateMu, gor, clock>>
pathVars == <<basePath, reqURL>>
multipartVars == <<mpFiles, fileReads, mw, fileIdx, mpc, mpResult, mpNet>>
\* The computations modelled after these, each with its own state.
decodeVars == <<errResp, errPath, errOut>>
listVars == <<items, sem, mu, fetch, loopI, listPc, gErr, warnings>>
taskVars == <<task>>
restVars == <<multipartVars, decodeVars, listVars, taskVars>>
vars == <<doVars, backoffVars, replayVars, rateVars, pathVars, restVars>>
\* The state of package httpx that those computations leave alone.
httpxVars == <<doVars, backoffVars, replayVars, rateVars, pathVars>>
notMultipart == <<httpxVars, decodeVars, listVars, taskVars>>
notDecode == <<httpxVars, multipartVars, listVars, taskVars>>
notList == <<httpxVars, multipartVars, decodeVars, taskVars>>
\* What a step of a goroutine's Do call leaves alone: all but the cache.
notTask == <<enableCache, maxAttempts, rate, now, ctxErr, callVars, histVars,
             backoffVars, replayVars, rateVars, pathVars,
             multipartVars, decodeVars, listVars>>
\* What a step of Do leaves alone: the state of the other computations.
notDo == <<backoffVars, replayVars, rateVars, pathVars, restVars>>

\* ------------------------------------------------------- values and nil
NoResp == [status |-> 0, etag |-> "", body |-> "", readErr |-> FALSE, retryAfter |-> ""]
NoEntry == [ok |-> FALSE, etag |-> "", body |-> ""]
NoResult == [kind |-> "none", code |-> 0, text |-> ""]
NilErr == [kind |-> "nil", code |-> 0, text |-> ""]
NoPrev == [ok |-> FALSE, etag |-> "", body |-> "", out |-> "", calls |-> 0]
NoReq == [method |-> "", url |-> "", body |-> "none"]
ZeroRate == [Limit |-> 0, Remaining |-> 0, ResetSet |-> FALSE, Reset |-> 0, Source |-> ""]
NoQuota == [limit |-> "", remaining |-> "", reset |-> "",
            attemptLimit |-> "", attemptRemaining |-> "",
            capacity |-> "", available |-> ""]

\* Quota headers a response of the model carries.
QuotaHeaders ==
  { NoQuota,
    [NoQuota EXCEPT !.limit = "100", !.remaining = "42"],
    [NoQuota EXCEPT !.limit = "100", !.remaining = "0", !.reset = "1"] }

Response(status, etag, body, readErr, retryAfter) ==
  [status |-> status, etag |-> etag, body |-> body, readErr |-> readErr,
   retryAfter |-> retryAfter]

\* Responses the server of the model sends (quota headers are chosen apart).
Responses ==
  { Response(StatusOK, "", "", FALSE, ""),
    Response(StatusOK, "", BodyOkLn, FALSE, ""),
    Response(StatusOK, "E1", "", FALSE, ""),
    Response(StatusOK, "E1", BodyOk, FALSE, ""),
    Response(StatusOK, "E1", BodyBad, FALSE, ""),
    Response(StatusOK, "E2", BodyHi, FALSE, ""),
    Response(StatusOK, "E1", BodyOk, TRUE, ""),
    Response(StatusNotModified, "", "", FALSE, ""),
    Response(StatusNotFound, "", "", FALSE, ""),
    Response(StatusNotFound, "", BodyErr, FALSE, ""),
    Response(StatusNotFound, "", BodyBad, TRUE, ""),
    Response(StatusTooManyRequests, "", BodyErr, FALSE, "1"),
    Response(StatusTooManyRequests, "", BodyErr, FALSE, "0"),
    Response(StatusTooManyRequests, "", "", FALSE, "soon"),
    Response(StatusInternalServerError, "", "", FALSE, ""),
    Response(StatusInternalServerError, "", BodyBad, FALSE, "") }

\* Requests the caller of the model gives to Do. body tells req.Body and
\* req.GetBody: no body, a body with GetBody, a body without GetBody.
Requests ==
  { [method |-> "GET", url |-> "/a", body |-> "none"],
    [method |-> "POST", url |-> "/a", body |-> "replayable"],
    [method |-> "POST", url |-> "/a", body |-> "oneshot"],
    [method |-> "DELETE", url |-> "/a", body |-> "none"] }

\* ------------------------------------------------------- library functions
\* strconv.Atoi on the header values of the model.
Atoi(s) ==
  CASE s = "0" -> [ok |-> TRUE, n |-> 0]
    [] s = "1" -> [ok |-> TRUE, n |-> 1]
    [] s = "-1" -> [ok |-> TRUE, n |-> -1]
    [] s = "3" -> [ok |-> TRUE, n |-> 3]
    [] s = "5" -> [ok |-> TRUE, n |-> 5]
    [] s = "9" -> [ok |-> TRUE, n |-> 9]
    [] s = "20" -> [ok |-> TRUE, n |-> 20]
    [] s = "50" -> [ok |-> TRUE, n |-> 50]
    [] s = "42" -> [ok |-> TRUE, n |-> 42]
    [] s = "60" -> [ok |-> TRUE, n |-> 60]
    [] s = "100" -> [ok |-> TRUE, n |-> 100]
    [] OTHER -> [ok |-> FALSE, n |-> 0]

\* json.Unmarshal of a body into the caller's value (a struct with a
\* message field): the decoded message, or an error.
JSONUnmarshal(b) ==
  CASE b = BodyOk -> [ok |-> TRUE, val |-> "ok"]
    [] b = BodyOkLn -> [ok |-> TRUE, val |-> "ok"]
    [] b = BodyHi -> [ok |-> TRUE, val |-> "hi"]
    [] b = BodyErr -> [ok |-> TRUE, val |-> ""]
    [] OTHER -> [ok |-> FALSE, val |-> ""]

\* Entries of the error envelopes of the model.
ErrorMessages == {"boom", "CAPTCHA required", "solve the captcha"}
ExceptionNames == {"", "CaptchaRequiredAuthenticationDeniedException", "CaptchaException"}

ApiErrEntries == [Message : ErrorMessages, ExceptionName : ExceptionNames]

EntryLists == UNION { [1..k -> ApiErrEntries] : k \in 0..MaxEntries }

\* The JSON text of one entry and of an envelope with the entries es.
EntryJSON(e) ==
  "{\"message\":\"" \o e.Message \o "\""
    \o (IF e.ExceptionName = "" THEN ""
        ELSE ",\"exceptionName\":\"" \o e.ExceptionName \o "\"")
    \o "}"

RECURSIVE EntriesJSON(_, _)
EntriesJSON(es, i) ==
  IF i > Len(es) THEN ""
  ELSE (IF i > 1 THEN "," ELSE "") \o EntryJSON(es[i]) \o EntriesJSON(es, i + 1)

EnvelopeJSON(es) == "{\"errors\":[" \o EntriesJSON(es, 1) \o "]}"

Envelopes == { EnvelopeJSON(es) : es \in EntryLists }

\* Bodies that are no envelope with entries: not JSON, blank, JSON of
\* another shape.
BodyBlank == "  \n"
BodyOther == "{\"message\":\"boom\"}\n"

\* json.Unmarshal of an envelope of the model: the entries it was written from.
ParsedEnvelope == [b \in Envelopes |-> CHOOSE es \in EntryLists : EnvelopeJSON(es) = b]

\* json.Unmarshal of a body into decodeError's apiErr: its errors list.
ErrorEntries(b) == IF b \in Envelopes THEN ParsedEnvelope[b] ELSE <<>>

\* strings.TrimSpace on the bodies of the model.
TrimSpace(b) ==
  CASE b = BodyOkLn -> BodyOk
    [] b = BodyBad -> "oops"
    [] b = BodyBlank -> ""
    [] b = BodyOther -> "{\"message\":\"boom\"}"
    [] OTHER -> b

\* ------------------------------------------------------------ the client
\* New: the retry policy with its defaults.
NewMaxAttempts(opt) == IF opt = 0 THEN DefaultMaxAttempts ELSE opt

\* The characters of the messages and exception names of the model.
Chars(s) ==
  CASE s = "boom" ->
         <<"b", "o", "o", "m">>
    [] s = "CAPTCHA required" ->
         <<"C", "A", "P", "T", "C", "H", "A", " ", "r", "e", "q", "u", "i", "r", "e", "d">>
    [] s = "solve the captcha" ->
         <<"s", "o", "l", "v", "e", " ", "t", "h", "e", " ", "c", "a", "p", "t", "c", "h", "a">>
    [] s = "CaptchaRequiredAuthenticationDeniedException" ->
         <<"C", "a", "p", "t", "c", "h", "a", "R", "e", "q", "u", "i", "r", "e", "d", "A", "u", "t", "h", "e", "n", "t", "i", "c", "a", "t", "i", "o", "n", "D", "e", "n", "i", "e", "d", "E", "x", "c", "e", "p", "t", "i", "o", "n">>
    [] s = "CaptchaException" ->
         <<"C", "a", "p", "t", "c", "h", "a", "E", "x", "c", "e", "p", "t", "i", "o", "n">>
    [] s = "captcha" ->
         <<"c", "a", "p", "t", "c", "h", "a">>
    [] s = "captcharequired" ->
         <<"c", "a", "p", "t", "c", "h", "a", "r", "e", "q", "u", "i", "r", "e", "d">>
    [] OTHER -> <<>>

UpperCase == <<"A", "B", "C", "D", "E", "F", "G", "H", "I", "J", "K", "L", "M", "N", "O", "P", "Q", "R", "S", "T", "U", "V", "W", "X", "Y", "Z">>
LowerCase == <<"a", "b", "c", "d", "e", "f", "g", "h", "i", "j", "k", "l", "m", "n", "o", "p", "q", "r", "s", "t", "u", "v", "w", "x", "y", "z">>

\* strings.ToLower, character by character.
ToLower(cs) ==
  [i \in 1..Len(cs) |->
     IF \E k \in DOMAIN UpperCase : UpperCase[k] = cs[i]
     THEN LowerCase[CHOOSE k \in DOMAIN UpperCase : UpperCase[k] = cs[i]]
     ELSE cs[i]]

\* strings.Contains.
Contains(cs, sub) ==
  \E i \in 0..(Len(cs) - Len(sub)) : SubSeq(cs, i + 1, i + Len(sub)) = sub

IsCaptchaException(exceptionName) ==
  Contains(ToLower(Chars(exceptionName)), Chars("captcharequired"))

\* strings.Contains(strings.ToLower(msg), "captcha").
MentionsCaptcha(msg) == Contains(ToLower(Chars(msg)), Chars("captcha"))

\* Mutant of FirstCaptcha: the classifiers are not looked at.
FirstCaptcha_Ignored(es, i) == 0

RECURSIVE FirstCaptcha(_, _)
FirstCaptcha(es, i) ==
  IF i > Len(es) THEN 0
  ELSE IF IsCaptchaException(es[i].ExceptionName) THEN i
  ELSE FirstCaptcha(es, i + 1)

\* Mutant of DecodeError: the raw body is reported untrimmed.
DecodeError_Untrimmed(status, data, rerr) ==
  IF ~rerr /\ data # ""
  THEN [kind |-> "api", code |-> status, text |-> ": " \o data]
  ELSE [kind |-> "api", code |-> status, text |-> ""]

\* decodeError: data and rerr are what io.ReadAll(resp.Body) returns. The
\* error text is resp.Status followed by text.
DecodeError(status, data, rerr) ==
  LET es == IF ~rerr /\ data # "" THEN ErrorEntries(data) ELSE <<>>
  IN IF Len(es) > 0
     THEN LET c == FirstCaptcha(es, 1)
              bestErr == IF c > 0 THEN es[c] ELSE es[1]
              msg == IF IsCaptchaException(bestErr.ExceptionName)
                        /\ ~MentionsCaptcha(bestErr.Message)
                     THEN "CAPTCHA verification required: " \o bestErr.Message
                     ELSE bestErr.Message
          IN [kind |-> "api", code |-> status, text |-> ": " \o msg]
     ELSE IF ~rerr /\ data # ""
          THEN [kind |-> "api", code |-> status, text |-> ": " \o TrimSpace(data)]
          ELSE [kind |-> "api", code |-> status, text |-> ""]

\* Mutant of cloneRequest: a body without GetBody is sent as it is.
CloneRequest_SendsOriginal(r) == TRUE

\* cloneRequest: TRUE when the clone succeeds.
CloneRequest(r) == r.body = "none" \/ r.body # "oneshot"

\* Mutant of shouldRetryStatus: every 4xx is retried too.
ShouldRetryStatus_All4xx(code) == code >= 400 /\ code <= 599

ShouldRetryStatus(code) ==
  IF code = StatusTooManyRequests THEN TRUE ELSE code >= 500 /\ code <= 599

\* Mutant of ShouldRetry: only a GET is retried.
ShouldRetry_GetOnly(n) == req.method = "GET" /\ n + 1 < maxAttempts

\* Mutant of ShouldRetry: the budget is not looked at.
ShouldRetry_Always(n) == TRUE

\* Mutant of ShouldRetry: the budget is taken to be one attempt shorter.
ShouldRetry_StopsEarly(n) == n + 1 < maxAttempts - 1

ShouldRetry(n) == n + 1 < maxAttempts

\* backoff: the delay it computes (ms); r is the response or NoResp (nil).
BackoffDelay(n, r) ==
  LET d0 == IF n > 1 THEN DefaultInitialBackoff * Pow2(n - 1) ELSE DefaultInitialBackoff
      d1 == IF d0 > DefaultMaxBackoff THEN DefaultMaxBackoff ELSE d0
  IN IF r # NoResp /\ r.retryAfter # "" /\ Atoi(r.retryAfter).ok
     THEN Atoi(r.retryAfter).n * 1000
     ELSE d1

CacheKey(r) == <<r.method, r.url>>

CachedETag(r) == IF cache[CacheKey(r)].ok THEN cache[CacheKey(r)].etag ELSE ""

\* Mutant of storeCache: a response without ETag or body drops the entry.
StoreCache_Evicts(r, body, etag) ==
  IF etag = "" \/ body = ""
  THEN [cache EXCEPT ![CacheKey(r)] = NoEntry]
  ELSE [cache EXCEPT ![CacheKey(r)] = [ok |-> TRUE, etag |-> etag, body |-> body]]

\* Mutant of storeCache: the guard on an empty ETag or body is missing.
StoreCache_NoGuard(r, body, etag) ==
  [cache EXCEPT ![CacheKey(r)] = [ok |-> TRUE, etag |-> etag, body |-> body]]

\* Mutant of storeCache: an existing entry is never replaced.
StoreCache_KeepsFirst(r, body, etag) ==
  IF etag = "" \/ body = "" \/ cache[CacheKey(r)].ok
  THEN cache
  ELSE [cache EXCEPT ![CacheKey(r)] = [ok |-> TRUE, etag |-> etag, body |-> body]]

\* storeCache: the cache after the call.
StoreCache(r, body, etag) ==
  IF etag = "" \/ body = ""
  THEN cache
  ELSE [cache EXCEPT ![CacheKey(r)] = [ok |-> TRUE, etag |-> etag, body |-> body]]

\* applyCachedResponse: the error it returns and what the target receives.
\* Mutant of ApplyCachedResponse: a 304 is answered as an empty success,
\* whether or not an entry exists, and the target is left as it was.
ApplyCachedResponse_Empty(r, target) == [err |-> NilErr, out |-> ""]

\* Mutant of ApplyCachedResponse: a 304 without an entry is not an error.
ApplyCachedResponse_MissIsNil(r, target) ==
  LET entry == cache[CacheKey(r)] IN
  IF target = "nil" \/ ~entry.ok THEN [err |-> NilErr, out |-> ""]
  ELSE IF target = "writer" THEN [err |-> NilErr, out |-> entry.body]
  ELSE IF JSONUnmarshal(entry.body).ok
       THEN [err |-> NilErr, out |-> JSONUnmarshal(entry.body).val]
       ELSE [err |-> [kind |-> "json", code |-> 0, text |-> ""], out |-> ""]

ApplyCachedResponse(r, target) ==
  LET entry == cache[CacheKey(r)] IN
  IF target = "nil" THEN [err |-> NilErr, out |-> ""]
  ELSE IF ~entry.ok THEN [err |-> [kind |-> "cachemiss", code |-> 0, text |-> r.url], out |-> ""]
  ELSE IF target = "writer" THEN [err |-> NilErr, out |-> entry.body]
  ELSE IF entry.body = "" THEN [err |-> NilErr, out |-> ""]
  ELSE IF JSONUnmarshal(entry.body).ok
       THEN [err |-> NilErr, out |-> JSONUnmarshal(entry.body).val]
       ELSE [err |-> [kind |-> "json", code |-> 0, text |-> ""], out |-> ""]

\* updateRateLimit's readHeader.
ReadHeader(val) == IF val = "" THEN 0 ELSE IF Atoi(val).ok THEN Atoi(val).n ELSE 0

\* time.Parse(time.RFC1123, s) on the header values of the model.
ParseRFC1123(s) ==
  IF s = "Thu, 01 Jan 1970 00:00:01 UTC"
  THEN [ok |-> TRUE, at |-> 1] ELSE [ok |-> FALSE, at |-> 0]

\* Mutant of ParseQuota: only the primary scheme is read.
ParseQuota_PrimaryOnly(h) ==
  [write |-> ReadHeader(h.limit) # 0 \/ ReadHeader(h.remaining) # 0,
   val |-> [Limit |-> ReadHeader(h.limit), Remaining |-> ReadHeader(h.remaining),
            ResetSet |-> Atoi(h.reset).ok /\ Atoi(h.reset).n > 0,
            Reset |-> IF Atoi(h.reset).ok /\ Atoi(h.reset).n > 0 THEN Atoi(h.reset).n ELSE 0,
            Source |-> "bitbucket"]]

\* Mutant of ParseQuota: the record is written whatever was parsed.
ParseQuota_AlwaysWrites(h) ==
  [write |-> TRUE,
   val |-> [Limit |-> ReadHeader(h.limit), Remaining |-> ReadHeader(h.remaining),
            ResetSet |-> FALSE, Reset |-> 0, Source |-> ""]]

\* updateRateLimit: whether it writes c.rate for a response with headers h,
\* and the value it writes.
ParseQuota(h) ==
  LET limit0 == ReadHeader(h.limit)
      remaining0 == ReadHeader(h.remaining)
      reset == IF h.reset = "" THEN [set |-> FALSE, at |-> 0]
               ELSE IF Atoi(h.reset).ok
                    THEN IF Atoi(h.reset).n > 0
                         THEN [set |-> TRUE, at |-> Atoi(h.reset).n]
                         ELSE [set |-> FALSE, at |-> 0]
                    ELSE IF ParseRFC1123(h.reset).ok
                         THEN [set |-> TRUE, at |-> ParseRFC1123(h.reset).at]
                         ELSE [set |-> FALSE, at |-> 0]
      primary == limit0 # 0 \/ remaining0 # 0
      limit1 == IF primary THEN limit0 ELSE ReadHeader(h.attemptLimit)
      remaining1 == IF primary THEN remaining0 ELSE ReadHeader(h.attemptRemaining)
      second == ~primary /\ limit1 = 0 /\ remaining1 = 0
      limit == IF second THEN ReadHeader(h.capacity) ELSE limit1
      remaining == IF second THEN ReadHeader(h.available) ELSE remaining1
      source == IF primary THEN "bitbucket"
                ELSE IF limit # 0 \/ remaining # 0 THEN "atlassian" ELSE ""
  IN [write |-> ~(limit = 0 /\ remaining = 0),
      val |-> [Limit |-> limit, Remaining |-> remaining, ResetSet |-> reset.set,
               Reset |-> reset.at, Source |-> source]]

\* updateRateLimit: the rate-limit state after a response with headers h.
UpdateRateLimit(old, h) == IF ParseQuota(h).write THEN ParseQuota(h).val ELSE old

\* Mutant of ThrottleSleep: the sleep is not capped.
ThrottleSleep_Uncapped(rl, t) ==
  IF rl.Remaining > 1 \/ ~rl.ResetSet THEN 0
  ELSE IF rl.Reset - t <= 0 THEN 0
  ELSE rl.Reset - t

\* Mutant of ThrottleSleep: the remaining quota is not looked at.
ThrottleSleep_IgnoresRemaining(rl, t) ==
  IF ~rl.ResetSet THEN 0
  ELSE IF rl.Reset - t <= 0 THEN 0
  ELSE Min(rl.Reset - t, ThrottleCap)

\* applyAdaptiveThrottle: the duration it sleeps at time t (0: no sleep).
ThrottleSleep(rl, t) ==
  IF rl.Remaining > 1 \/ ~rl.ResetSet THEN 0
  ELSE IF rl.Reset - t <= 0 THEN 0
  ELSE Min(rl.Reset - t, ThrottleCap)

\* ------------------------------------------------ 64-bit signed arithmetic
\* An int64 (time.Duration, int) is its two's complement bytes, least
\* significant first; every operation keeps the length of its first operand,
\* which is how the machine wraps around.
ByteBase == 256
\* Bytes of a time.Duration and of an int.
DurationBytes == 8
\* Bytes of the integers of mathematics a claim compares with.
WideBytes == 16

Zero(w) == [i \in 1..w |-> 0]

RECURSIVE MulAddFrom(_, _, _, _)
MulAddFrom(x, m, c, i) ==
  IF i > Len(x) THEN <<>>
  ELSE LET t == x[i] * m + c
       IN <<t % ByteBase>> \o MulAddFrom(x, m, t \div ByteBase, i + 1)

\* x * m + c for small non-negative m and c.
MulAdd(x, m, c) == MulAddFrom(x, m, c, 1)

\* A non-negative number below 2^31 as w bytes.
FromNat(n, w) == MulAdd(Zero(w), 0, n)

RECURSIVE AddFrom(_, _, _, _)
AddFrom(x, y, c, i) ==
  IF i > Len(x) THEN <<>>
  ELSE LET t == x[i] + y[i] + c
       IN <<t % ByteBase>> \o AddFrom(x, y, t \div ByteBase, i + 1)

Add(x, y) == AddFrom(x, y, 0, 1)

\* x shifted up by n whole bytes.
ShiftBytes(x, n) == [i \in 1..Len(x) |-> IF i > n THEN x[i - n] ELSE 0]

RECURSIVE MulFrom(_, _, _)
MulFrom(x, y, i) ==
  IF i > Len(x) THEN Zero(Len(x))
  ELSE Add(ShiftBytes(MulAdd(y, x[i], 0), i - 1), MulFrom(x, y, i + 1))

\* x * y.
Mul(x, y) == MulFrom(x, y, 1)

\* x << s; a count of as many bits as x has, or more, leaves 0, as Go
\* defines it.
Shl(x, s) ==
  LET q == s \div 8
      p == Pow2(s % 8)
      byte(j) == IF j >= 1 /\ j <= Len(x) THEN x[j] ELSE 0
  IN [i \in 1..Len(x) |->
        ((byte(i - q) * p) % ByteBase) + ((byte(i - q - 1) * p) \div ByteBase)]

\* -x.
Neg(x) == MulAdd([i \in 1..Len(x) |-> ByteBase - 1 - x[i]], 1, 1)

IsNeg(x) == x[Len(x)] >= ByteBase \div 2

RECURSIVE ULessFrom(_, _, _)
ULessFrom(x, y, i) ==
  IF i = 0 THEN FALSE
  ELSE IF x[i] # y[i] THEN x[i] < y[i]
  ELSE ULessFrom(x, y, i - 1)

\* x < y as signed numbers.
Less(x, y) ==
  IF IsNeg(x) # IsNeg(y) THEN IsNeg(x) ELSE ULessFrom(x, y, Len(x))

\* A non-negative x with w bytes (w at least its length).
Widen(x, w) == [i \in 1..w |-> IF i <= Len(x) THEN x[i] ELSE 0]

Truncate(x, w) == [i \in 1..w |-> x[i]]

\* time.Millisecond and time.Second, nanoseconds.
Millisecond == FromNat(1000000, DurationBytes)
Second == FromNat(1000000000, DurationBytes)
\* math.MaxInt64.
MaxInt64 == [i \in 1..DurationBytes |-> IF i = DurationBytes THEN 127 ELSE 255]

\* A header value is the sequence of its characters.
DigitChars == <<"0", "1", "2", "3", "4", "5", "6", "7", "8", "9">>

DigitVal(c) == CHOOSE d \in 0..9 : DigitChars[d + 1] = c

IsDigit(c) == \E d \in 0..9 : DigitChars[d + 1] = c

RECURSIVE ParseDigits(_, _, _)
ParseDigits(s, i, acc) ==
  IF i > Len(s) THEN acc ELSE ParseDigits(s, i + 1, MulAdd(acc, 10, DigitVal(s[i])))

\* strconv.Atoi(s) with a 64-bit int: an optional sign, then one or more
\* decimal digits, and a value inside the int64 range; anything else is an
\* error. n is the int64.
AtoiChars(s) ==
  LET signed == Len(s) > 0 /\ s[1] \in {"+", "-"}
      ds == IF signed THEN SubSeq(s, 2, Len(s)) ELSE s
      mag == ParseDigits(ds, 1, Zero(WideBytes))
      limit == Shl(FromNat(1, WideBytes), 8 * DurationBytes - 1)
      inRange == IF signed /\ s[1] = "-" THEN ~ULessFrom(limit, mag, WideBytes)
                 ELSE ULessFrom(mag, limit, WideBytes)
  IN IF Len(ds) = 0 \/ (\E i \in 1..Len(ds) : ~IsDigit(ds[i])) \/ ~inRange
     THEN [ok |-> FALSE, n |-> Zero(DurationBytes)]
     ELSE [ok |-> TRUE,
           n |-> IF signed /\ s[1] = "-" THEN Neg(Truncate(mag, DurationBytes))
                 ELSE Truncate(mag, DurationBytes)]

\* The response given to backoff with its Retry-After header (<<>>: absent),
\* and whether httpClient.Do returned it with an error. After an error the
\* response is nil, except that http.Client returns the last redirect
\* response along with the error when its redirect policy (10 redirects,
\* none being set by New) stops the request.
NilResp == [err |-> TRUE, nil |-> TRUE, retryAfter |-> <<>>]

RedirectResp(ra) == [err |-> TRUE, nil |-> FALSE, retryAfter |-> ra]

RespWith(ra) == [err |-> FALSE, nil |-> FALSE, retryAfter |-> ra]

\* backoff: the delay it computes for the policy p, attempts n and the
\* response r.
Delay64(p, n, r) ==
  LET d0 == IF n > 1
            THEN Mul(p.InitialBackoff, Shl(FromNat(1, DurationBytes), n - 1))
            ELSE p.InitialBackoff
      d1 == IF Less(p.MaxBackoff, d0) THEN p.MaxBackoff ELSE d0
  IN IF ~r.nil /\ r.retryAfter # <<>> /\ AtoiChars(r.retryAfter).ok
     THEN Mul(AtoiChars(r.retryAfter).n, Second)
     ELSE d1

\* backoff: the duration of the timer it waits on; none (0) when delay <= 0.
TimerOf(d) == IF ~Less(Zero(DurationBytes), d) THEN Zero(DurationBytes) ELSE d

\* The state of the retry-policy computation while another one runs.
IdleBackoff ==
  /\ retry = [MaxAttempts |-> DefaultMaxAttempts,
              InitialBackoff |-> MulAdd(Millisecond, DefaultInitialBackoff, 0),
              MaxBackoff |-> MulAdd(Millisecond, DefaultMaxBackoff, 0)]
  /\ tries = 0
  /\ lastResp = NilResp
  /\ armed = Zero(DurationBytes)

\* --------------------------------------------------------------- actions
\* A client on which no Do call was made yet.
FreshDo ==
  /\ cache = [k \in Methods \X URLs |-> NoEntry]
  /\ rate = ZeroRate
  /\ now = 0
  /\ pc = "idle"
  /\ req = NoReq
  /\ v = "nil"
  /\ ctxErr = ""
  /\ attempts = 0
  /\ inm = ""
  /\ resp = NoResp
  /\ netErr = ""
  /\ delay = 0
  /\ sleep = 0
  /\ result = NoResult
  /\ out = ""
  /\ netCalls = 0
  /\ fails = 0
  /\ calls = 0
  /\ prevGet = [u \in URLs |-> NoPrev]

\* The state of Do while another computation runs.
IdleDo == enableCache = FALSE /\ maxAttempts = DefaultMaxAttempts /\ FreshDo

\* No request was built yet.
NotBuilt == [kind |-> "", payload |-> <<>>]

\* The state of the request body while another computation runs.
IdleReplay ==
  /\ built = NotBuilt /\ bodyPos = 0 /\ wire = <<>> /\ rpc = "new" /\ sends = 0

\* A goroutine of the given role ("do": inside Do, "reader": a caller of
\* RateLimitState) that has not started.
NewGoroutine(role) ==
  [role |-> role, pc |-> "idle", last |-> "none", hdrs |-> NoQuota,
   val |-> ZeroRate, i |-> 0, slept |-> 0, until |-> 0]

FreeMutex == [writer |-> 0, readers |-> {}]

\* The state of the rate-limit record while another computation runs.
IdleRate ==
  /\ curRate = ZeroRate /\ rateMu = FreeMutex /\ gor = <<>> /\ clock = 0

\* No request URL was built yet.
NoURL == [builder |-> "", arg |-> <<>>, Path |-> <<>>, RawQuery |-> <<>>]

\* The state of URL resolution while another computation runs.
IdlePath == basePath = <<>> /\ reqURL = NoURL

\* NewMultipartRequest has not returned.
NoMultipart == [err |-> "", req |-> FALSE, payload |-> <<>>]

\* The state of the multipart builder while another computation runs.
IdleMultipart ==
  /\ mpFiles = <<>> /\ fileReads = <<>> /\ mw = [boundary |-> "", buf |-> <<>>]
  /\ fileIdx = 0 /\ mpc = "new" /\ mpResult = NoMultipart /\ mpNet = 0

\* The state of the later computations while another one runs.
\* The state of the error decoder while another computation runs.
IdleDecode == errResp = [status |-> 0, body |-> "", readErr |-> FALSE] /\ errPath = "" /\ errOut = NoResult

\* The state of the list command while another computation runs.
IdleList ==
  /\ items = <<>> /\ sem = 0 /\ mu = 0 /\ fetch = <<>> /\ loopI = 1
  /\ listPc = "range" /\ gErr = FALSE /\ warnings = {}

\* No goroutine calls Do.
IdleTask == task = <<>>

IdleRest == IdleMultipart /\ IdleDecode /\ IdleList /\ IdleTask

Init ==
  /\ enableCache \in BOOLEAN
  /\ maxAttempts \in {NewMaxAttempts(o) : o \in 0..MaxM}
  /\ FreshDo
  /\ IdleBackoff
  /\ IdleReplay
  /\ IdleRate
  /\ IdlePath
  /\ IdleRest

Is2xx(code) == code >= 200 /\ code < 300

\* The call that just returned was a cached GET that decoded a 2xx response
\* with an ETag and a non-empty body into a JSON value.
CachedGetDone ==
  /\ pc = "done" /\ enableCache /\ req.method = "GET" /\ v = "json"
  /\ result = NilErr /\ Is2xx(resp.status) /\ resp.etag # "" /\ resp.body # ""

\* The caller invokes Do(req, v) with a fresh context.
StartDo(r, target) ==
  /\ pc \in {"idle", "done"}
  /\ calls < MaxCalls
  /\ calls' = calls + 1
  /\ prevGet' = IF pc = "done" /\ req.method = "GET"
                THEN [prevGet EXCEPT ![req.url] =
                        IF CachedGetDone
                        THEN [ok |-> TRUE, etag |-> resp.etag, body |-> resp.body,
                              out |-> out, calls |-> netCalls]
                        ELSE NoPrev]
                ELSE prevGet
  /\ req' = r /\ v' = target
  /\ pc' = "attempt"
  /\ attempts' = 0 /\ inm' = "" /\ resp' = NoResp /\ netErr' = ""
  /\ delay' = 0 /\ sleep' = 0 /\ result' = NoResult /\ out' = ""
  /\ ctxErr' = ""
  /\ netCalls' = 0 /\ fails' = 0
  /\ UNCHANGED <<clientVars, now>>
  /\ UNCHANGED notDo

\* Top of the loop: cloneRequest, If-None-Match, httpClient.Do is invoked.
Attempt ==
  /\ pc = "attempt"
  /\ IF ~CloneRequest(req)
     THEN /\ pc' = "done"
          /\ result' = [kind |-> "replay", code |-> 0, text |-> ""]
          /\ UNCHANGED <<inm, netCalls>>
     ELSE /\ inm' = IF enableCache /\ req.method = "GET" THEN CachedETag(req) ELSE ""
          /\ pc' = "net"
          /\ netCalls' = netCalls + 1
          /\ UNCHANGED result
  /\ UNCHANGED <<clientVars, now, ctxErr, req, v, attempts, resp, netErr, delay,
                 sleep, out, fails, calls, prevGet>>
  /\ UNCHANGED notDo

\* c.backoff(ctx, n, r) and what DoWithHeaders does with its result; lastErr
\* is the error DoWithHeaders returns when backoff says not to continue.
Backoff(n, r, lastErr) ==
  IF n >= maxAttempts
  THEN pc' = "done" /\ result' = lastErr /\ delay' = delay
  ELSE IF ctxErr # ""
  THEN pc' = "done" /\ result' = [kind |-> "ctx", code |-> 0, text |-> ctxErr]
       /\ delay' = delay
  ELSE IF BackoffDelay(n, r) <= 0
  THEN pc' = "attempt" /\ result' = result /\ delay' = delay
  ELSE pc' = "backoff" /\ result' = result /\ delay' = BackoffDelay(n, r)

\* httpClient.Do returns a transport error.
NetError(e) ==
  /\ pc = "net"
  /\ netErr' = e /\ resp' = NoResp
  /\ fails' = fails + 1
  /\ IF ~ShouldRetry(attempts)
     THEN /\ pc' = "done"
          /\ result' = [kind |-> "transport", code |-> 0, text |-> e]
          /\ UNCHANGED <<attempts, delay>>
     ELSE /\ attempts' = attempts + 1
          /\ Backoff(attempts + 1, NoResp, [kind |-> "transport", code |-> 0, text |-> e])
  /\ UNCHANGED <<clientVars, now, ctxErr, req, v, inm, sleep, out, netCalls, calls,
                 prevGet>>
  /\ UNCHANGED notDo

\* Mutant of NetResponse: the throttle decision is taken before the
\* rate-limit state is updated.
NetResponse_ThrottleFirst(r, h) ==
  /\ pc = "net"
  /\ ctxErr = ""
  /\ resp' = r /\ netErr' = ""
  /\ rate' = UpdateRateLimit(rate, h)
  /\ sleep' = ThrottleSleep(rate, now)
  /\ pc' = IF sleep' > 0 THEN "throttle" ELSE "status"
  /\ UNCHANGED <<enableCache, maxAttempts, cache, now, ctxErr, req, v, attempts, inm,
                 delay, result, out, histVars>>
  /\ UNCHANGED notDo

\* httpClient.Do returns a response: updateRateLimit, applyAdaptiveThrottle.
\* Once the context is cancelled httpClient.Do returns an error instead; a
\* response that beat the cancellation is this step followed by Cancel.
NetResponse(r, h) ==
  /\ pc = "net"
  /\ ctxErr = ""
  /\ resp' = r /\ netErr' = ""
  /\ rate' = UpdateRateLimit(rate, h)
  /\ sleep' = ThrottleSleep(rate', now)
  /\ pc' = IF sleep' > 0 THEN "throttle" ELSE "status"
  /\ UNCHANGED <<enableCache, maxAttempts, cache, now, ctxErr, req, v, attempts, inm,
                 delay, result, out, histVars>>
  /\ UNCHANGED notDo

\* time.Sleep of applyAdaptiveThrottle returns.
ThrottleWake ==
  /\ pc = "throttle"
  /\ now' = Min(MaxNow, now + sleep)
  /\ pc' = "status"
  /\ UNCHANGED <<clientVars, ctxErr, req, v, attempts, inm, resp, netErr, delay,
                 sleep, result, out, histVars>>
  /\ UNCHANGED notDo

\* 304 on a cached GET: applyCachedResponse.
NotModified ==
  /\ pc = "status"
  /\ resp.status = StatusNotModified /\ enableCache /\ req.method = "GET"
  /\ pc' = "done"
  /\ result' = ApplyCachedResponse(req, v).err
  /\ out' = ApplyCachedResponse(req, v).out
  /\ UNCHANGED <<clientVars, now, ctxErr, req, v, attempts, inm, resp, netErr, delay,
                 sleep, histVars>>
  /\ UNCHANGED notDo

\* Mutant of RetryableStatus: the body read for the retry decision is not
\* put back, so decodeError sees a drained body.
RetryableStatus_DrainedBody ==
  /\ pc = "status"
  /\ ~(resp.status = StatusNotModified /\ enableCache /\ req.method = "GET")
  /\ ShouldRetryStatus(resp.status)
  /\ fails' = fails + 1
  /\ IF ~ShouldRetry(attempts)
     THEN /\ pc' = "done"
          /\ result' = DecodeError(resp.status, "", TRUE)
          /\ UNCHANGED <<attempts, delay>>
     ELSE /\ attempts' = attempts + 1
          /\ Backoff(attempts + 1, resp, DecodeError(resp.status, "", TRUE))
  /\ UNCHANGED <<clientVars, now, ctxErr, req, v, inm, resp, netErr, sleep, out,
                 netCalls, calls, prevGet>>
  /\ UNCHANGED notDo

\* 429 or 5xx: the body is read (read errors ignored) and the call retries
\* or returns the decoded error.
RetryableStatus ==
  /\ pc = "status"
  /\ ~(resp.status = StatusNotModified /\ enableCache /\ req.method = "GET")
  /\ ShouldRetryStatus(resp.status)
  /\ fails' = fails + 1
  /\ IF ~ShouldRetry(attempts)
     THEN /\ pc' = "done"
          /\ result' = DecodeError(resp.status, resp.body, FALSE)
          /\ UNCHANGED <<attempts, delay>>
     ELSE /\ attempts' = attempts + 1
          /\ Backoff(attempts + 1, resp, DecodeError(resp.status, resp.body, FALSE))
  /\ UNCHANGED <<clientVars, now, ctxErr, req, v, inm, resp, netErr, sleep, out,
                 netCalls, calls, prevGet>>
  /\ UNCHANGED notDo

\* Any other status outside 2xx: decodeError at once.
ErrorStatus ==
  /\ pc = "status"
  /\ ~(resp.status = StatusNotModified /\ enableCache /\ req.method = "GET")
  /\ ~ShouldRetryStatus(resp.status)
  /\ resp.status < 200 \/ resp.status >= 300
  /\ pc' = "done"
  /\ result' = DecodeError(resp.status, resp.body, resp.readErr)
  /\ UNCHANGED <<clientVars, now, ctxErr, req, v, attempts, inm, resp, netErr, delay,
                 sleep, out, histVars>>
  /\ UNCHANGED notDo

Success ==
  /\ pc = "status"
  /\ ~(resp.status = StatusNotModified /\ enableCache /\ req.method = "GET")
  /\ ~ShouldRetryStatus(resp.status)
  /\ ~(resp.status < 200 \/ resp.status >= 300)

\* 2xx and v == nil: the body is discarded.
SuccessNil ==
  /\ Success
  /\ v = "nil"
  /\ cache' = IF enableCache /\ req.method = "GET"
              THEN StoreCache(req, "", resp.etag) ELSE cache
  /\ pc' = "done" /\ result' = NilErr
  /\ UNCHANGED <<enableCache, maxAttempts, rate, now, ctxErr, req, v, attempts, inm,
                 resp, netErr, delay, sleep, out, histVars>>
  /\ UNCHANGED notDo

\* 2xx and v is an io.Writer: io.Copy, no buffering.
SuccessWriter ==
  /\ Success
  /\ v = "writer"
  /\ out' = resp.body
  /\ pc' = "done"
  /\ result' = IF resp.readErr THEN [kind |-> "read", code |-> 0, text |-> ""] ELSE NilErr
  /\ UNCHANGED <<clientVars, now, ctxErr, req, v, attempts, inm, resp, netErr, delay,
                 sleep, histVars>>
  /\ UNCHANGED notDo

\* Mutant of SuccessJSON: the body is read and cached but never decoded.
SuccessJSON_NoDecode ==
  /\ Success
  /\ v = "json"
  /\ pc' = "done"
  /\ IF resp.readErr
     THEN result' = [kind |-> "read", code |-> 0, text |-> ""] /\ UNCHANGED <<cache, out>>
     ELSE /\ cache' = IF enableCache /\ req.method = "GET" /\ resp.etag # ""
                      THEN StoreCache(req, resp.body, resp.etag) ELSE cache
          /\ result' = NilErr /\ out' = out
  /\ UNCHANGED <<enableCache, maxAttempts, rate, now, ctxErr, req, v, attempts, inm,
                 resp, netErr, delay, sleep, histVars>>
  /\ UNCHANGED notDo

\* 2xx and v is a JSON value: read all, store in the cache, decode.
SuccessJSON ==
  /\ Success
  /\ v = "json"
  /\ pc' = "done"
  /\ IF resp.readErr
     THEN result' = [kind |-> "read", code |-> 0, text |-> ""] /\ UNCHANGED <<cache, out>>
     ELSE /\ cache' = IF enableCache /\ req.method = "GET" /\ resp.etag # ""
                      THEN StoreCache(req, resp.body, resp.etag) ELSE cache
          /\ IF resp.body = ""
             THEN result' = NilErr /\ out' = out
             ELSE IF JSONUnmarshal(resp.body).ok
                  THEN result' = NilErr /\ out' = JSONUnmarshal(resp.body).val
                  ELSE result' = [kind |-> "json", code |-> 0, text |-> ""] /\ out' = out
  /\ UNCHANGED <<enableCache, maxAttempts, rate, now, ctxErr, req, v, attempts, inm,
                 resp, netErr, delay, sleep, histVars>>
  /\ UNCHANGED notDo

\* The backoff timer fires.
BackoffTimer ==
  /\ pc = "backoff"
  /\ pc' = "attempt"
  /\ now' = Min(MaxNow, now + (delay \div 1000))
  /\ UNCHANGED <<clientVars, ctxErr, req, v, attempts, inm, resp, netErr, delay, sleep,
                 result, out, histVars>>
  /\ UNCHANGED notDo

\* Mutant of CancelInBackoff: the select waits on the timer alone.
CancelInBackoff_KeepsWaiting(cause) ==
  /\ pc = "backoff"
  /\ ctxErr = ""
  /\ ctxErr' = cause
  /\ UNCHANGED <<clientVars, now, callVars, histVars>>
  /\ UNCHANGED notDo

\* The caller's context is cancelled while Do is parked in backoff's select.
CancelInBackoff(cause) ==
  /\ pc = "backoff"
  /\ ctxErr = ""
  /\ ctxErr' = cause
  /\ pc' = "done"
  /\ result' = [kind |-> "ctx", code |-> 0, text |-> cause]
  /\ UNCHANGED <<clientVars, now, req, v, attempts, inm, resp, netErr, delay, sleep,
                 out, histVars>>
  /\ UNCHANGED notDo

\* Mutant of Cancel: the throttle sleep selects on the context too.
Cancel_InterruptsThrottle(cause) ==
  /\ pc \in {"net", "throttle"}
  /\ ctxErr = ""
  /\ ctxErr' = cause
  /\ IF pc = "throttle"
     THEN pc' = "done" /\ result' = [kind |-> "ctx", code |-> 0, text |-> cause]
     ELSE UNCHANGED <<pc, result>>
  /\ UNCHANGED <<clientVars, now, req, v, attempts, inm, resp, netErr, delay, sleep,
                 out, histVars>>
  /\ UNCHANGED notDo

\* The caller's context is cancelled while the request is on the network or
\* while Do sleeps in applyAdaptiveThrottle (time.Sleep does not see it). The
\* code between two waits does not read the context, so a cancellation there
\* is seen exactly as one during the wait before it.
Cancel(cause) ==
  /\ pc \in {"net", "throttle"}
  /\ ctxErr = ""
  /\ ctxErr' = cause
  /\ UNCHANGED <<clientVars, now, callVars, histVars>>
  /\ UNCHANGED notDo

Next ==
  \/ \E r \in Requests, t \in Targets : StartDo(r, t)
  \/ Attempt
  \/ \E e \in NetErrs : NetError(e)
  \/ \E r \in Responses, h \in QuotaHeaders : NetResponse(r, h)
  \/ ThrottleWake
  \/ NotModified
  \/ RetryableStatus
  \/ ErrorStatus
  \/ SuccessNil
  \/ SuccessWriter
  \/ SuccessJSON
  \/ BackoffTimer
  \/ \E c \in Causes : CancelInBackoff(c)
  \/ \E c \in Causes : Cancel(c)

Spec == Init /\ [][Next]_vars

\* ---------------------------------------------------------------- claims
CtxError(cause) == [kind |-> "ctx", code |-> 0, text |-> cause]

\* C1: with MaxAttempts = M >= 1 no Do call makes more than M network calls,
\* and a call of a live context in which every attempt ended in a transport
\* error or a 429/5xx response returns an error after exactly M network calls.
C1_RetryBudget ==
  /\ maxAttempts >= 1
  /\ netCalls <= maxAttempts
  /\ (pc = "done" /\ ctxErr = "" /\ netCalls >= 1 /\ fails = netCalls)
       => (netCalls = maxAttempts /\ result.kind \in {"transport", "api"})

C1_Witness ==
  /\ pc = "done" /\ ctxErr = "" /\ maxAttempts = 3
  /\ netCalls = 3 /\ fails = 3 /\ result.kind = "api"

\* C2: when the first k-1 attempts fail retryably and attempt k returns 2xx
\* with a JSON body, Do has made exactly k <= MaxAttempts network calls and
\* returns nil with the k-th body decoded into the caller's value.
C2_RetryThenSuccess ==
  (pc = "done" /\ v = "json" /\ Is2xx(resp.status) /\ ~resp.readErr
     /\ resp.body \in {BodyOk, BodyOkLn, BodyHi})
    => /\ result = NilErr
       /\ out = (IF resp.body = BodyHi THEN "hi" ELSE "ok")
       /\ netCalls = fails + 1
       /\ netCalls <= maxAttempts

C2_Witness ==
  /\ pc = "done" /\ v = "json" /\ maxAttempts = 3
  /\ resp.status = StatusOK /\ resp.body = BodyOk
  /\ fails = 1 /\ netCalls = 2 /\ result = NilErr /\ out = "ok"

\* C3: a cancellation that arrives while Do waits in the retry backoff ends
\* the wait at once: Do returns the context's error (Canceled or
\* DeadlineExceeded), not the decoded HTTP error, and makes no further
\* network call; cancelled in the first backoff, it has made exactly 1 call.
C3_CancelDuringBackoff ==
  /\ [][(pc = "backoff" /\ ctxErr = "" /\ ctxErr' # "")
          => (/\ pc' = "done"
              /\ ctxErr' \in Causes
              /\ result' = CtxError(ctxErr')
              /\ netCalls' = netCalls
              /\ (attempts = 1 => netCalls' = 1))]_vars
  /\ [][(pc = "done" /\ result.kind = "ctx" /\ calls' = calls)
          => (pc' = "done" /\ netCalls' = netCalls /\ result' = result)]_vars

C3_Witness ==
  /\ pc = "done" /\ result = CtxError("Canceled") /\ delay > 0
  /\ resp.status = StatusInternalServerError /\ netCalls = 1 /\ maxAttempts = 3

\* C4 as claimed: every wait of Do, the throttle sleep like the retry
\* backoff, ends at once with the cancellation cause when the context is
\* cancelled during it.
C4_EveryWaitCancellable ==
  [][(pc \in {"backoff", "throttle"} /\ ctxErr = "" /\ ctxErr' # "")
       => (pc' = "done" /\ result' = CtxError(ctxErr'))]_vars

\* C4 as amended: the retry backoff ends at once with the cancellation cause;
\* the throttle sleep is not interrupted: a context cancelled during it
\* leaves Do asleep, and Do goes on to act on the response when it wakes.
C4_OnlyBackoffCancellable ==
  /\ [][(ctxErr = "" /\ ctxErr' # "")
          => IF pc = "backoff"
             THEN pc' = "done" /\ result' = CtxError(ctxErr')
             ELSE pc' = pc /\ result' = result /\ sleep' = sleep /\ now' = now]_vars
  /\ [][(pc = "throttle" /\ pc' # "throttle")
          => (pc' = "status" /\ result' = result /\ now' = Min(MaxNow, now + sleep))]_vars

C4_Witness ==
  /\ pc = "done" /\ ctxErr # "" /\ sleep > 0 /\ result = NilErr
  /\ resp.status = StatusOK /\ netCalls = 1

CacheEntry(etag, body) == [ok |-> TRUE, etag |-> etag, body |-> body]

\* C5: with caching enabled, after a GET that decoded a 2xx response with
\* ETag E and non-empty body B into a JSON value, every attempt of the next
\* GET to that URL carries If-None-Match: E; answered 304, it returns nil (no
\* cache-miss error) with the target filled from B, so the caller observes
\* what the first call gave, and the two calls made 2 network calls when each
\* was answered at its first attempt.
C5_ETagRoundTrip ==
  (enableCache /\ req.method = "GET" /\ prevGet[req.url].ok) =>
    /\ (netCalls >= 1 => inm = prevGet[req.url].etag)
    /\ (pc = "done" /\ resp.status = StatusNotModified) =>
         /\ result = NilErr
         /\ (v = "json" => out = prevGet[req.url].out)
         /\ (v = "writer" => out = prevGet[req.url].body)
         /\ (fails = 0 /\ prevGet[req.url].calls = 1
               => prevGet[req.url].calls + netCalls = 2)

C5_Witness ==
  /\ enableCache /\ req.method = "GET" /\ v = "json" /\ pc = "done"
  /\ prevGet[req.url] = [ok |-> TRUE, etag |-> "E1", body |-> BodyOk,
                         out |-> "ok", calls |-> 1]
  /\ resp.status = StatusNotModified /\ inm = "E1" /\ netCalls = 1
  /\ result = NilErr /\ out = "ok"

\* C6: every cache entry is keyed by a GET request and holds a non-empty
\* ETag and a non-empty body.
C6_CacheEntriesWellFormed ==
  \A k \in DOMAIN cache :
    cache[k].ok => (k[1] = "GET" /\ cache[k].etag # "" /\ cache[k].body # "")

C6_Witness ==
  /\ cache[<<"GET", "/a">>] = CacheEntry("E1", BodyOk)
  /\ pc = "done" /\ req.method = "POST" /\ v = "json"
  /\ resp.status = StatusOK /\ resp.etag = "E2" /\ resp.body = BodyHi

\* A response the cache is to hold: 2xx to a GET of a caching client, read
\* in full, with an ETag and a non-empty body.
Storable ==
  /\ enableCache /\ req.method = "GET" /\ Is2xx(resp.status) /\ ~resp.readErr
  /\ resp.etag # "" /\ resp.body # ""

MissOn304 ==
  /\ pc = "done" /\ enableCache /\ req.method = "GET"
  /\ resp.status = StatusNotModified /\ ~cache[CacheKey(req)].ok

\* C8 as claimed: a 304 without a cache entry makes Do return a cache-miss
\* error for every output target.
C8_MissForAnyTarget == MissOn304 => result.kind = "cachemiss"

\* C8 as amended: a 304 without a cache entry makes Do return a cache-miss
\* error when the target is a JSON value or a stream writer; with a nil
\* target Do returns nil.
C8_MissUnlessNilTarget ==
  MissOn304 => IF v = "nil" THEN result = NilErr
               ELSE result.kind = "cachemiss" /\ out = ""

C8_Witness == MissOn304 /\ v = "writer" /\ result.kind = "cachemiss" /\ netCalls = 1

\* C9: when the retry budget is exhausted Do returns the failure of the last
\* attempt: the API error decoded from the last response's status and body,
\* or the last transport error itself.
C9_LastFailureReturned ==
  (pc = "done" /\ netCalls = maxAttempts /\ fails = netCalls) =>
    IF resp # NoResp
    THEN /\ result.kind = "api" /\ result.code = resp.status
         /\ result.text = (CASE resp.body = "" -> ""
                             [] resp.body = BodyErr -> ": boom"
                             [] resp.body = BodyBad -> ": oops"
                             [] OTHER -> ": " \o resp.body)
    ELSE result = [kind |-> "transport", code |-> 0, text |-> netErr] /\ netErr \in NetErrs

C9_Witness ==
  /\ pc = "done" /\ maxAttempts = 3 /\ netCalls = 3 /\ fails = 3
  /\ resp.status = StatusTooManyRequests /\ resp.body = BodyErr
  /\ result = [kind |-> "api", code |-> StatusTooManyRequests, text |-> ": boom"]

\* The last response has a status outside 2xx that is neither 429 nor 5xx,
\* and is not a 304 served from the cache.
TerminalStatus ==
  /\ resp # NoResp
  /\ ~Is2xx(resp.status)
  /\ resp.status # StatusTooManyRequests /\ ~(resp.status >= 500 /\ resp.status <= 599)
  /\ ~(resp.status = StatusNotModified /\ enableCache /\ req.method = "GET")

\* C10: a response with a terminal status ends the Do call at that attempt:
\* Do returns the decoded error, and neither a backoff wait nor a further
\* network call follows it, whatever retry budget remains.
C10_TerminalStatusNoRetry ==
  TerminalStatus =>
    /\ pc \in {"throttle", "status", "done"}
    /\ pc = "done" =>
         /\ result.kind = "api" /\ result.code = resp.status
         /\ netCalls = fails + 1

C10_Witness ==
  /\ pc = "done" /\ TerminalStatus /\ maxAttempts = 3 /\ fails = 1 /\ netCalls = 2
  /\ resp.status = StatusNotFound /\ result.text = ": boom"

\* C13 as claimed: for a body without a replay function the first attempt
\* is sent, and the replay error is returned only after it failed retryably.
C13_ReplayErrorOnRetry ==
  /\ (req.body = "oneshot" /\ pc \notin {"idle", "attempt"}) => netCalls >= 1
  /\ (pc = "done" /\ result.kind = "replay") => (netCalls >= 1 /\ fails >= 1)

\* C13 as amended: for a body without a replay function Do returns the
\* replay error from the clone of the first attempt: no network call is made
\* and no attempt has failed; the replay error arises for no other request.
C13_ReplayErrorBeforeFirstSend ==
  /\ []((req.body = "oneshot" /\ pc \notin {"idle", "attempt"})
         => (pc = "done" /\ result.kind = "replay" /\ netCalls = 0 /\ fails = 0))
  /\ [](result.kind = "replay" => req.body = "oneshot")
  /\ [][(pc = "attempt" /\ req.body = "oneshot")
          => (pc' = "done" /\ result'.kind = "replay" /\ netCalls' = 0)]_vars

C13_Witness ==
  /\ pc = "done" /\ result.kind = "replay" /\ req.body = "oneshot"
  /\ netCalls = 0 /\ maxAttempts = 3 /\ calls = 2

\* ============================================================ retry policy
\* backoff over any RetryPolicy, with durations at their 64-bit width.
\* Largest MaxAttempts of the policies explored.
MaxPolicyAttempts == 40

InitialBackoffs ==
  { FromNat(1, DurationBytes),
    MulAdd(Millisecond, DefaultInitialBackoff, 0),
    MulAdd(Second, 3, 0) }

MaxBackoffs == { MulAdd(Millisecond, DefaultMaxBackoff, 0), MaxInt64 }

RetryPolicies ==
  { [MaxAttempts |-> m, InitialBackoff |-> i, MaxBackoff |-> x] :
      m \in {DefaultMaxAttempts, MaxPolicyAttempts}, i \in InitialBackoffs,
      x \in MaxBackoffs }

\* Retry-After values of a 429/5xx response; <<>> is an absent header.
RetryAfterValues ==
  { <<>>, <<"0">>, <<"3">>, <<"-", "1">>, <<"s", "o", "o", "n">>,
    <<"9", "2", "2", "3", "3", "7", "2", "0", "3", "7">>,
    <<"9", "9", "9", "9", "9", "9", "9", "9", "9", "9",
      "9", "9", "9", "9", "9", "9", "9", "9", "9", "9">> }

InitBackoff ==
  /\ IdleDo
  /\ IdleReplay
  /\ IdleRate
  /\ IdlePath
  /\ IdleRest
  /\ retry \in RetryPolicies
  /\ tries = 0
  /\ lastResp = NilResp
  /\ armed = Zero(DurationBytes)

\* Retry-After values of a redirect response.
RedirectRetryAfterValues == { <<>>, <<"3">> }

\* httpClient.Do returned an error and Do retries: backoff(ctx, n, resp),
\* resp being what came with the error.
BackoffAfterError(r) ==
  /\ tries + 1 < retry.MaxAttempts
  /\ tries' = tries + 1
  /\ lastResp' = r
  /\ armed' = Delay64(retry, tries', r)
  /\ UNCHANGED <<retry, doVars, replayVars, rateVars, pathVars, restVars>>

\* An attempt ended in a 429/5xx response and Do retries: backoff(ctx, n, resp).
BackoffAfterStatus(ra) ==
  /\ tries + 1 < retry.MaxAttempts
  /\ tries' = tries + 1
  /\ lastResp' = RespWith(ra)
  /\ armed' = Delay64(retry, tries', RespWith(ra))
  /\ UNCHANGED <<retry, doVars, replayVars, rateVars, pathVars, restVars>>

NextBackoff ==
  \/ \E r \in {NilResp} \cup {RedirectResp(ra) : ra \in RedirectRetryAfterValues} :
       BackoffAfterError(r)
  \/ \E ra \in RetryAfterValues : BackoffAfterStatus(ra)

SpecBackoff == InitBackoff /\ [][NextBackoff]_vars

\* min(InitialBackoff * 2^(k-1), MaxBackoff) in the integers.
DoubledCapped(p, k) ==
  LET d == Shl(Widen(p.InitialBackoff, WideBytes), k - 1)
      x == Widen(p.MaxBackoff, WideBytes)
  IN IF ULessFrom(x, d, WideBytes) THEN x ELSE d

\* C11: absent a Retry-After header, the wait before the k-th retry equals
\* min(InitialBackoff * 2^(k-1), MaxBackoff), for every k and every policy
\* with positive InitialBackoff and MaxBackoff.
C11_WaitDoublesToCap ==
  (tries >= 1 /\ lastResp.retryAfter = <<>>)
    => Widen(TimerOf(armed), WideBytes) = DoubledCapped(retry, tries)

\* n seconds in the integers, for the decimal integer s; 0 when n <= 0.
SecondsOf(s) ==
  LET neg == s[1] = "-"
      ds == IF s[1] \in {"+", "-"} THEN SubSeq(s, 2, Len(s)) ELSE s
      n == ParseDigits(ds, 1, Zero(WideBytes))
  IN IF neg THEN Zero(WideBytes)
     ELSE MulAdd(MulAdd(MulAdd(n, 1000, 0), 1000, 0), 1000, 0)

\* C12: a Retry-After that parses as an integer n makes the wait n seconds
\* (no MaxBackoff cap; no wait when n <= 0); one that does not parse is
\* ignored and the computed backoff is used; a transport error has none.
C12_RetryAfterSeconds ==
  /\ lastResp.err => lastResp.retryAfter = <<>>
  /\ (tries >= 1 /\ lastResp.retryAfter # <<>>)
       => IF AtoiChars(lastResp.retryAfter).ok
          THEN Widen(TimerOf(armed), WideBytes) = SecondsOf(lastResp.retryAfter)
          ELSE armed = Delay64(retry, tries, NilResp)

\* ============================================================= body replay
\* The body of a request built by NewRequest or NewMultipartRequest, as the
\* attempts of one Do call send it. A byte sequence is a sequence of tokens.
\* Attempts one Do call starts.
MaxSends == 3

\* Values given to NewRequest as body, and json.Marshal of them.
JSONBodies == {"empty list", "string hi", "object a:1"}

JSONMarshal(b) ==
  CASE b = "empty list" -> <<"[", "]">>
    [] b = "string hi" -> <<"\"", "h", "i", "\"">>
    [] b = "object a:1" -> <<"{", "\"", "a", "\"", ":", "1", "}">>

\* Files given to NewMultipartRequest: field name, file name, what the
\* file's Reader yields.
FileLists ==
  { <<[FieldName |-> "files", FileName |-> "a.txt", Content |-> <<"x", "y">>]>>,
    <<[FieldName |-> "files", FileName |-> "a.txt", Content |-> <<>>],
      [FieldName |-> "files", FileName |-> "b.bin", Content |-> <<"z">>]>> }

\* Boundaries multipart.NewWriter draws at random.
Boundaries == {"b1", "b2"}

RECURSIVE MultipartParts(_, _, _)
MultipartParts(files, b, i) ==
  IF i > Len(files) THEN <<>>
  ELSE <<"--" \o b, "\r\n",
         "Content-Disposition: form-data; name=" \o files[i].FieldName
           \o "; filename=" \o files[i].FileName, "\r\n",
         "Content-Type: application/octet-stream", "\r\n", "\r\n">>
       \o files[i].Content \o <<"\r\n">> \o MultipartParts(files, b, i + 1)

\* What the multipart writer has put in buf once it is closed.
MultipartPayload(files, b) == MultipartParts(files, b, 1) \o <<"--" \o b \o "--", "\r\n">>

InitReplay ==
  /\ IdleDo /\ IdleBackoff /\ IdleRate /\ IdlePath /\ IdleRest
  /\ IdleReplay

\* NewRequest with a non-nil body: payload = json.Marshal(body), GetBody
\* reads data = payload.
NewRequestWithBody(b) ==
  /\ rpc = "new"
  /\ built' = [kind |-> "json", payload |-> JSONMarshal(b)]
  /\ rpc' = "loop"
  /\ UNCHANGED <<bodyPos, wire, sends, doVars, backoffVars, rateVars, pathVars, restVars>>

\* NewMultipartRequest: payload = buf.Bytes(), GetBody reads payload.
NewMultipartRequest(files, b) ==
  /\ rpc = "new"
  /\ built' = [kind |-> "multipart", payload |-> MultipartPayload(files, b)]
  /\ rpc' = "loop"
  /\ UNCHANGED <<bodyPos, wire, sends, doVars, backoffVars, rateVars, pathVars, restVars>>

\* Mutant of CloneForAttempt: the clone keeps the reader of the attempt
\* before it instead of asking GetBody for a fresh one.
CloneForAttempt_KeepsReader ==
  /\ rpc = "loop"
  /\ sends < MaxSends
  /\ sends' = sends + 1
  /\ bodyPos' = bodyPos
  /\ wire' = <<>>
  /\ rpc' = "sending"
  /\ UNCHANGED <<built, doVars, backoffVars, rateVars, pathVars, restVars>>

\* Top of Do's loop: cloneRequest gives attemptReq the reader GetBody
\* returns, a new bytes.Reader at offset 0 of the stored payload.
CloneForAttempt ==
  /\ rpc = "loop"
  /\ sends < MaxSends
  /\ sends' = sends + 1
  /\ bodyPos' = 0
  /\ wire' = <<>>
  /\ rpc' = "sending"
  /\ UNCHANGED <<built, doVars, backoffVars, rateVars, pathVars, restVars>>

\* The transport reads the next n bytes of attemptReq.Body.
TransportRead(n) ==
  /\ rpc = "sending"
  /\ bodyPos + n <= Len(built.payload)
  /\ wire' = wire \o SubSeq(built.payload, bodyPos + 1, bodyPos + n)
  /\ bodyPos' = bodyPos + n
  /\ UNCHANGED <<built, rpc, sends, doVars, backoffVars, rateVars, pathVars, restVars>>

\* The attempt fails (transport error, 429 or 5xx) wherever the transport
\* stopped reading, and Do goes round its loop.
AttemptFailed ==
  /\ rpc = "sending"
  /\ rpc' = "loop"
  /\ UNCHANGED <<built, bodyPos, wire, sends, doVars, backoffVars, rateVars, pathVars, restVars>>

\* The transport read the body to its end and the attempt ends the call.
AttemptServed ==
  /\ rpc = "sending"
  /\ bodyPos = Len(built.payload)
  /\ rpc' = "done"
  /\ UNCHANGED <<built, bodyPos, wire, sends, doVars, backoffVars, rateVars, pathVars, restVars>>

NextReplay ==
  \/ \E b \in JSONBodies : NewRequestWithBody(b)
  \/ \E files \in FileLists, b \in Boundaries : NewMultipartRequest(files, b)
  \/ CloneForAttempt
  \/ \E n \in 1..2 : TransportRead(n)
  \/ AttemptFailed
  \/ AttemptServed

SpecReplay == InitReplay /\ [][NextReplay]_vars

\* What the transport has read in this attempt followed by what
\* attemptReq.Body still yields: the body this attempt sends.
AttemptBody == wire \o SubSeq(built.payload, bodyPos + 1, Len(built.payload))

\* C14: the body every attempt sends, the first and each retry, is exactly
\* the payload encoded at construction, however much of an earlier attempt's
\* body was read; the payload stays what the builder encoded.
C14_ReplayIsPayload ==
  /\ [](rpc \in {"sending", "done"} => (AttemptBody = built.payload /\ Len(wire) = bodyPos))
  /\ [](rpc = "done" => wire = built.payload)
  /\ [][rpc # "new" => built' = built]_vars
  /\ [][rpc = "new" =>
          \/ \E b \in JSONBodies : built'.payload = JSONMarshal(b)
          \/ \E files \in FileLists, b \in Boundaries :
               built'.payload = MultipartPayload(files, b)]_vars

C14_Witness ==
  /\ rpc = "done" /\ sends = 3 /\ built.kind = "multipart"
  /\ wire = MultipartPayload(
              <<[FieldName |-> "files", FileName |-> "a.txt", Content |-> <<"x", "y">>]>>,
              "b2")

\* ===================================================== rate-limit record
\* updateRateLimit, applyAdaptiveThrottle and RateLimitState as goroutines
\* run them on one client. A RateLimit value is several machine words, so an
\* assignment or a copy of one is a sequence of field copies.
\* The wall clock saturates here.
MaxClock == 10
\* Fields of RateLimit.
NumFields == 4

CopyField(dst, src, i) ==
  CASE i = 1 -> [dst EXCEPT !.Limit = src.Limit]
    [] i = 2 -> [dst EXCEPT !.Remaining = src.Remaining]
    [] i = 3 -> [dst EXCEPT !.ResetSet = src.ResetSet, !.Reset = src.Reset]
    [] i = 4 -> [dst EXCEPT !.Source = src.Source]

\* Quota headers of the responses one goroutine receives one after another.
QuotaResponses ==
  { NoQuota,
    [NoQuota EXCEPT !.limit = "100", !.remaining = "42"],
    [NoQuota EXCEPT !.limit = "100", !.remaining = "0", !.reset = "3"],
    [NoQuota EXCEPT !.limit = "100", !.remaining = "1", !.reset = "9"],
    [NoQuota EXCEPT !.limit = "100", !.remaining = "-1", !.reset = "9"],
    [NoQuota EXCEPT !.limit = "100", !.remaining = "0", !.reset = "0"],
    [NoQuota EXCEPT !.limit = "100", !.remaining = "0", !.reset = "soon"],
    [NoQuota EXCEPT !.limit = "100", !.remaining = "0",
                    !.reset = "Thu, 01 Jan 1970 00:00:01 UTC"],
    [NoQuota EXCEPT !.remaining = "0", !.reset = "3"],
    [NoQuota EXCEPT !.limit = "0", !.remaining = "0", !.reset = "9"],
    [NoQuota EXCEPT !.limit = "many", !.remaining = "few"],
    [NoQuota EXCEPT !.attemptLimit = "5", !.attemptRemaining = "1", !.reset = "3"],
    [NoQuota EXCEPT !.capacity = "50", !.available = "20"],
    [NoQuota EXCEPT !.limit = "100", !.remaining = "42",
                    !.capacity = "50", !.available = "20"],
    [NoQuota EXCEPT !.remaining = "0", !.capacity = "50", !.available = "20"] }

\* Quota headers of the responses goroutines receive side by side.
SharedQuotaResponses ==
  { NoQuota,
    [NoQuota EXCEPT !.limit = "100", !.remaining = "42", !.reset = "9"],
    [NoQuota EXCEPT !.limit = "50", !.remaining = "0", !.reset = "9"] }

\* A response arrives in Do: updateRateLimit parses its headers and returns
\* early when there is nothing to record.
Respond(p, h) ==
  /\ gor[p].role = "do" /\ gor[p].pc = "idle"
  /\ gor' = [gor EXCEPT ![p] =
       [@ EXCEPT !.last = "response", !.hdrs = h,
                 !.val = IF ParseQuota(h).write THEN ParseQuota(h).val ELSE ZeroRate,
                 !.pc = IF ParseQuota(h).write THEN "lock" ELSE "rlock"]]
  /\ UNCHANGED <<curRate, rateMu, clock, doVars, backoffVars, replayVars, pathVars, restVars>>

\* httpClient.Do returns an error: Do does not touch the rate-limit record.
TransportError(p) ==
  /\ gor[p].role = "do" /\ gor[p].pc = "idle" /\ gor[p].last # "error"
  /\ gor' = [gor EXCEPT ![p] = [@ EXCEPT !.last = "error"]]
  /\ UNCHANGED <<curRate, rateMu, clock, doVars, backoffVars, replayVars, pathVars, restVars>>

\* Mutant of Lock: updateRateLimit writes without waiting for the mutex.
Lock_NoWait(p) ==
  /\ gor[p].pc = "lock"
  /\ rateMu' = rateMu
  /\ gor' = [gor EXCEPT ![p] = [@ EXCEPT !.pc = "write", !.i = 1]]
  /\ UNCHANGED <<curRate, clock, doVars, backoffVars, replayVars, pathVars, restVars>>

\* c.rateMu.Lock() in updateRateLimit.
Lock(p) ==
  /\ gor[p].pc = "lock"
  /\ rateMu.writer = 0 /\ rateMu.readers = {}
  /\ rateMu' = [rateMu EXCEPT !.writer = p]
  /\ gor' = [gor EXCEPT ![p] = [@ EXCEPT !.pc = "write", !.i = 1]]
  /\ UNCHANGED <<curRate, clock, doVars, backoffVars, replayVars, pathVars, restVars>>

\* c.rate = RateLimit{...}: one field is stored.
WriteField(p) ==
  /\ gor[p].pc = "write"
  /\ curRate' = CopyField(curRate, gor[p].val, gor[p].i)
  /\ gor' = [gor EXCEPT ![p] =
       [@ EXCEPT !.i = @ + 1, !.pc = IF gor[p].i = NumFields THEN "unlock" ELSE "write"]]
  /\ UNCHANGED <<rateMu, clock, doVars, backoffVars, replayVars, pathVars, restVars>>

\* c.rateMu.Unlock(); Do goes on to applyAdaptiveThrottle.
Unlock(p) ==
  /\ gor[p].pc = "unlock"
  /\ rateMu' = [rateMu EXCEPT !.writer = IF @ = p THEN 0 ELSE @]
  /\ gor' = [gor EXCEPT ![p] = [@ EXCEPT !.pc = "rlock", !.val = ZeroRate]]
  /\ UNCHANGED <<curRate, clock, doVars, backoffVars, replayVars, pathVars, restVars>>

\* A caller invokes RateLimitState.
CallRateLimitState(p) ==
  /\ gor[p].role = "reader" /\ gor[p].pc = "idle"
  /\ gor' = [gor EXCEPT ![p] = [@ EXCEPT !.pc = "rlock", !.last = "called"]]
  /\ UNCHANGED <<curRate, rateMu, clock, doVars, backoffVars, replayVars, pathVars, restVars>>

\* c.rateMu.RLock() in applyAdaptiveThrottle and in RateLimitState.
RLock(p) ==
  /\ gor[p].pc = "rlock"
  /\ rateMu.writer = 0
  /\ rateMu' = [rateMu EXCEPT !.readers = @ \cup {p}]
  /\ gor' = [gor EXCEPT ![p] = [@ EXCEPT !.pc = "read", !.i = 1, !.val = ZeroRate]]
  /\ UNCHANGED <<curRate, clock, doVars, backoffVars, replayVars, pathVars, restVars>>

\* rl := c.rate, return c.rate: one field is copied.
ReadField(p) ==
  /\ gor[p].pc = "read"
  /\ gor' = [gor EXCEPT ![p] =
       [@ EXCEPT !.val = CopyField(@, curRate, gor[p].i), !.i = @ + 1,
                 !.pc = IF gor[p].i = NumFields THEN "runlock" ELSE "read"]]
  /\ UNCHANGED <<curRate, rateMu, clock, doVars, backoffVars, replayVars, pathVars, restVars>>

\* c.rateMu.RUnlock(). RateLimitState returns the copy; applyAdaptiveThrottle
\* decides on the copy and either returns or calls time.Sleep.
RUnlock(p) ==
  /\ gor[p].pc = "runlock"
  /\ rateMu' = [rateMu EXCEPT !.readers = @ \ {p}]
  /\ gor' = [gor EXCEPT ![p] =
       IF gor[p].role = "reader"
       THEN [@ EXCEPT !.pc = "idle", !.last = "returned"]
       ELSE IF ThrottleSleep(gor[p].val, clock) > 0
       THEN [@ EXCEPT !.pc = "sleep", !.slept = ThrottleSleep(gor[p].val, clock),
                      !.until = clock + ThrottleSleep(gor[p].val, clock)]
       ELSE [@ EXCEPT !.pc = "idle", !.hdrs = NoQuota, !.val = ZeroRate,
                      !.slept = 0, !.until = 0]]
  /\ UNCHANGED <<curRate, clock, doVars, backoffVars, replayVars, pathVars, restVars>>

\* time.Sleep returns: the clock has reached the end of the sleep.
Wake(p) ==
  /\ gor[p].pc = "sleep"
  /\ clock' = IF clock < gor[p].until THEN Min(gor[p].until, MaxClock) ELSE clock
  /\ gor' = [gor EXCEPT ![p] =
       [@ EXCEPT !.pc = "idle", !.hdrs = NoQuota, !.val = ZeroRate,
                 !.slept = 0, !.until = 0]]
  /\ UNCHANGED <<curRate, rateMu, doVars, backoffVars, replayVars, pathVars, restVars>>

\* Time passes between two attempts.
Tick ==
  /\ clock < MaxClock
  /\ \A p \in DOMAIN gor : gor[p].pc = "idle"
  /\ clock' = clock + 1
  /\ UNCHANGED <<curRate, rateMu, gor, doVars, backoffVars, replayVars, pathVars, restVars>>

\* One goroutine in Do, attempt after attempt.
InitQuota ==
  /\ IdleDo /\ IdleBackoff /\ IdleReplay /\ IdlePath /\ IdleRest
  /\ curRate = ZeroRate /\ rateMu = FreeMutex /\ clock = 0
  /\ gor = <<NewGoroutine("do")>>

NextQuota ==
  \/ \E h \in QuotaResponses : Respond(1, h)
  \/ TransportError(1)
  \/ Lock(1)
  \/ WriteField(1)
  \/ Unlock(1)
  \/ RLock(1)
  \/ ReadField(1)
  \/ RUnlock(1)
  \/ Wake(1)
  \/ Tick

SpecQuota == InitQuota /\ [][NextQuota]_vars

\* Two goroutines in Do and one calling RateLimitState, on one client.
InitRateLimitState ==
  /\ IdleDo /\ IdleBackoff /\ IdleReplay /\ IdlePath /\ IdleRest
  /\ curRate = ZeroRate /\ rateMu = FreeMutex /\ clock = 0
  /\ gor = <<NewGoroutine("do"), NewGoroutine("do"), NewGoroutine("reader")>>

NextRateLimitState ==
  \/ \E p \in DOMAIN gor, h \in SharedQuotaResponses : Respond(p, h)
  \/ \E p \in DOMAIN gor : Lock(p)
  \/ \E p \in DOMAIN gor : WriteField(p)
  \/ \E p \in DOMAIN gor : Unlock(p)
  \/ \E p \in DOMAIN gor : CallRateLimitState(p)
  \/ \E p \in DOMAIN gor : RLock(p)
  \/ \E p \in DOMAIN gor : ReadField(p)
  \/ \E p \in DOMAIN gor : RUnlock(p)
  \/ \E p \in DOMAIN gor : Wake(p)

SpecRateLimitState == InitRateLimitState /\ [][NextRateLimitState]_vars

\* The values updateRateLimit writes for the responses of the model.
WrittenValues ==
  { ParseQuota(h).val : h \in {x \in SharedQuotaResponses : ParseQuota(x).write} }

\* C15: under any interleaving of RateLimitState calls with Do calls that
\* update the record, every value RateLimitState returns is the zero state or
\* exactly the tuple one single response's update wrote; an update that has
\* stored its last field has left exactly its own tuple in the record.
C15_NoTornRead ==
  \A p \in DOMAIN gor :
    /\ (gor[p].role = "reader" /\ gor[p].last = "returned")
         => gor[p].val \in {ZeroRate} \cup WrittenValues
    /\ gor[p].pc = "unlock" => curRate = gor[p].val

C15_Witness ==
  /\ Len(gor) = 3
  /\ gor[3].last = "returned" /\ gor[3].pc = "idle"
  /\ gor[3].val = [Limit |-> 50, Remaining |-> 0, ResetSet |-> TRUE, Reset |-> 9,
                   Source |-> "bitbucket"]
  /\ gor[1].pc = "write" /\ gor[1].i = 3 /\ gor[1].val.Remaining = 42
  /\ gor[2].pc = "lock"

\* The goroutine's update for the response it is handling is over.
Updated(p) ==
  /\ gor[p].role = "do" /\ gor[p].last = "response"
  /\ gor[p].pc \in {"rlock", "read", "runlock", "sleep"}

\* The reset time the X-RateLimit-Reset value s gives: a positive epoch in
\* seconds or an RFC 1123 date; none otherwise.
ResetOf(s) ==
  IF Atoi(s).ok THEN [set |-> Atoi(s).n > 0, at |-> IF Atoi(s).n > 0 THEN Atoi(s).n ELSE 0]
  ELSE IF s = "Thu, 01 Jan 1970 00:00:01 UTC" THEN [set |-> TRUE, at |-> 1]
  ELSE [set |-> FALSE, at |-> 0]

Tuple(limit, remaining, reset, source) ==
  [Limit |-> limit, Remaining |-> remaining, ResetSet |-> reset.set, Reset |-> reset.at,
   Source |-> source]

\* Every quota header the response carries is an integer.
AllIntegers(h) ==
  \A s \in {h.limit, h.remaining, h.attemptLimit, h.attemptRemaining, h.capacity,
            h.available} : s = "" \/ Atoi(s).ok

\* C16 as claimed: after every response that carries quota headers the
\* record holds that response's values, the primary scheme's with source
\* 'bitbucket' whenever the response carries it (a remaining of 0 included),
\* a fallback scheme's with source 'atlassian' otherwise.
C16_RecordsEveryQuotaResponse ==
  LET h == gor[1].hdrs IN
  (Updated(1) /\ h # NoQuota /\ AllIntegers(h)) =>
    curRate =
      IF h.limit # "" \/ h.remaining # ""
      THEN Tuple(ReadHeader(h.limit), ReadHeader(h.remaining), ResetOf(h.reset), "bitbucket")
      ELSE IF h.attemptLimit # "" \/ h.attemptRemaining # ""
      THEN Tuple(ReadHeader(h.attemptLimit), ReadHeader(h.attemptRemaining),
                 ResetOf(h.reset), "atlassian")
      ELSE Tuple(ReadHeader(h.capacity), ReadHeader(h.available), ResetOf(h.reset),
                 "atlassian")

\* A scheme yields data when its limit or its remaining is an integer other
\* than 0.
Yields(l, r) == ReadHeader(l) # 0 \/ ReadHeader(r) # 0

\* C16 as amended: after every response in which some scheme yields data the
\* record holds the values of the first scheme that does, in the order
\* X-RateLimit-Limit/Remaining (source 'bitbucket'), X-Attempt-RateLimit-*,
\* X-RateLimit-Capacity/Available (source 'atlassian'), with the reset time of
\* X-RateLimit-Reset. A scheme whose limit and remaining are both 0, absent or
\* unparsable yields nothing, so a primary 'remaining 0' beside no non-zero
\* limit does not win over a fallback scheme.
C16_RecordsFirstYieldingScheme ==
  LET h == gor[1].hdrs IN
  Updated(1) =>
    /\ Yields(h.limit, h.remaining)
         => curRate = Tuple(ReadHeader(h.limit), ReadHeader(h.remaining),
                            ResetOf(h.reset), "bitbucket")
    /\ (~Yields(h.limit, h.remaining) /\ Yields(h.attemptLimit, h.attemptRemaining))
         => curRate = Tuple(ReadHeader(h.attemptLimit), ReadHeader(h.attemptRemaining),
                            ResetOf(h.reset), "atlassian")
    /\ (~Yields(h.limit, h.remaining) /\ ~Yields(h.attemptLimit, h.attemptRemaining)
          /\ Yields(h.capacity, h.available))
         => curRate = Tuple(ReadHeader(h.capacity), ReadHeader(h.available),
                            ResetOf(h.reset), "atlassian")

C16_Witness ==
  /\ Updated(1)
  /\ gor[1].hdrs = [NoQuota EXCEPT !.remaining = "0", !.capacity = "50", !.available = "20"]
  /\ curRate = Tuple(50, 20, [set |-> FALSE, at |-> 0], "atlassian")

\* No scheme of the response yields data.
NoData(h) ==
  /\ ~Yields(h.limit, h.remaining)
  /\ ~Yields(h.attemptLimit, h.attemptRemaining)
  /\ ~Yields(h.capacity, h.available)

\* C17: a response from which no scheme yields data (headers absent,
\* unparsable, or limit and remaining both 0) leaves all four fields of the
\* record as they were, and so does a transport error.
C17_NoDataLeavesRecord ==
  /\ [][NoData(gor'[1].hdrs) => curRate' = curRate]_vars
  /\ [][gor'[1].last = "error" => curRate' = curRate]_vars

C17_Witness ==
  /\ Updated(1)
  /\ gor[1].hdrs = [NoQuota EXCEPT !.limit = "0", !.remaining = "0", !.reset = "9"]
  /\ curRate = Tuple(100, 0, [set |-> TRUE, at |-> 3], "bitbucket")

\* C18: the throttle sleeps only when the recorded state has remaining <= 1
\* and a known reset time in the future, and then for min(reset - now, 5 s);
\* otherwise it does not sleep, so no pause exceeds 5 seconds.
C18_ThrottleSleepsToResetCapped ==
  /\ [][gor[1].pc = "runlock" =>
          LET rl == gor[1].val IN
          /\ rl = curRate
          /\ IF rl.Remaining <= 1 /\ rl.ResetSet /\ rl.Reset > clock
             THEN /\ gor'[1].pc = "sleep"
                  /\ gor'[1].slept = (IF rl.Reset - clock < 5 THEN rl.Reset - clock ELSE 5)
             ELSE gor'[1].pc = "idle" /\ gor'[1].slept = 0]_vars
  /\ [][(gor[1].pc = "sleep" /\ gor'[1].pc # "sleep")
          => clock' = Min(clock + gor[1].slept, MaxClock)]_vars
  /\ [](gor[1].slept <= 5)

C18_Witness ==
  /\ gor[1].pc = "sleep" /\ gor[1].slept = 5 /\ clock = 2
  /\ gor[1].val = Tuple(100, -1, [set |-> TRUE, at |-> 9], "bitbucket")

\* The response's own headers report remaining <= 1 with a known reset time.
OwnExhausted(h) ==
  /\ ParseQuota(h).write
  /\ ParseQuota(h).val.Remaining <= 1 /\ ParseQuota(h).val.ResetSet

\* C19 as claimed: a goroutine sleeps in the throttle only after a response
\* whose own headers report remaining <= 1 with a known reset time.
C19_SleepsOnlyAfterOwnExhausted ==
  \A p \in DOMAIN gor : gor[p].pc = "sleep" => OwnExhausted(gor[p].hdrs)

\* C19 as amended: a goroutine sleeps in the throttle only immediately after
\* a response, and only when the record as it read it then holds a tuple some
\* response wrote with remaining <= 1 and a known reset time still ahead;
\* that response need not be its own.
C19_SleepsOnRecordedState ==
  /\ [](\A p \in DOMAIN gor :
          gor[p].pc = "sleep" =>
            /\ gor[p].role = "do" /\ gor[p].last = "response"
            /\ gor[p].val \in WrittenValues
            /\ gor[p].val.Remaining <= 1 /\ gor[p].val.ResetSet
            /\ gor[p].until = gor[p].val.Reset \/ gor[p].slept = ThrottleCap)
  /\ [][\A p \in DOMAIN gor :
          (gor'[p].pc = "sleep" /\ gor[p].pc # "sleep") => gor[p].pc = "runlock"]_vars

C19_Witness ==
  /\ Len(gor) = 3
  /\ gor[1].pc = "sleep" /\ gor[1].hdrs = NoQuota /\ clock = 5 /\ gor[1].slept = 4
  /\ gor[2].pc = "sleep" /\ gor[2].hdrs.remaining = "42"

\* ========================================================= URL resolution
\* The path and query NewRequest and NewMultipartRequest give the request's
\* URL. A string is the sequence of its characters.
\* Longest path argument explored, in characters, before any query.
MaxPathLen == 3

PathChars == {"/", "v", "x"}

\* Path arguments: relative paths, with and without a query string.
PathArgs ==
  LET plain == UNION { [1..k -> PathChars] : k \in 1..MaxPathLen }
  IN plain \cup { s \o <<"?", "q", "=", "/", "v">> : s \in plain }

\* Paths of the base URL.
BasePaths == { <<>>, <<"/">>, <<"/", "v">>, <<"/", "v", "/">> }

\* strings.HasPrefix, strings.TrimSuffix.
HasPrefix(s, pre) == Len(pre) <= Len(s) /\ SubSeq(s, 1, Len(pre)) = pre

TrimSuffix(s, suf) ==
  IF Len(suf) <= Len(s) /\ SubSeq(s, Len(s) - Len(suf) + 1, Len(s)) = suf
  THEN SubSeq(s, 1, Len(s) - Len(suf)) ELSE s

\* Position of the first c in s at or after i; Len(s) + 1 when there is none.
RECURSIVE IndexFrom(_, _, _)
IndexFrom(s, c, i) ==
  IF i > Len(s) THEN Len(s) + 1
  ELSE IF s[i] = c THEN i ELSE IndexFrom(s, c, i + 1)

\* url.Parse of a string that starts with "/": the query follows the first
\* "?"; a string that starts with "//" names a host up to the next "/".
URLParse(s) ==
  LET q == IndexFrom(s, "?", 1)
      rest == SubSeq(s, 1, q - 1)
      query == SubSeq(s, q + 1, Len(s))
      slash == IndexFrom(rest, "/", 3)
  IN IF HasPrefix(rest, <<"/", "/">>)
     THEN [Host |-> SubSeq(rest, 3, slash - 1), Path |-> SubSeq(rest, slash, Len(rest)),
           RawQuery |-> query]
     ELSE [Host |-> <<>>, Path |-> rest, RawQuery |-> query]

\* The URL path and query both builders compute for the path argument arg.
ResolveURL(base, arg) ==
  LET path == IF ~HasPrefix(arg, <<"/">>) THEN <<"/">> \o arg ELSE arg
      rel == URLParse(path)
      relPath == IF rel.Path = <<>> THEN <<"/">> ELSE rel.Path
  IN [Path |-> IF base # <<>>
               THEN IF HasPrefix(relPath, base) THEN relPath
                    ELSE TrimSuffix(base, <<"/">>) \o relPath
               ELSE relPath,
      RawQuery |-> rel.RawQuery]

InitPath ==
  /\ IdleDo /\ IdleBackoff /\ IdleReplay /\ IdleRate /\ IdleRest
  /\ basePath \in BasePaths
  /\ reqURL = NoURL

\* NewRequest(ctx, method, arg, body).
NewRequestURL(arg) ==
  /\ reqURL' = [builder |-> "NewRequest", arg |-> arg,
                Path |-> ResolveURL(basePath, arg).Path,
                RawQuery |-> ResolveURL(basePath, arg).RawQuery]
  /\ UNCHANGED <<basePath, doVars, backoffVars, replayVars, rateVars, restVars>>

\* NewMultipartRequest(ctx, method, arg, files).
NewMultipartRequestURL(arg) ==
  /\ reqURL' = [builder |-> "NewMultipartRequest", arg |-> arg,
                Path |-> ResolveURL(basePath, arg).Path,
                RawQuery |-> ResolveURL(basePath, arg).RawQuery]
  /\ UNCHANGED <<basePath, doVars, backoffVars, replayVars, rateVars, restVars>>

NextPath ==
  \/ \E arg \in PathArgs : NewRequestURL(arg)
  \/ \E arg \in PathArgs : NewMultipartRequestURL(arg)

SpecPath == InitPath /\ [][NextPath]_vars

\* The argument's path p, a leading "/" added when missing, and its query.
ArgPath(arg) ==
  LET s == IF ~HasPrefix(arg, <<"/">>) THEN <<"/">> \o arg ELSE arg
  IN SubSeq(s, 1, IndexFrom(s, "?", 1) - 1)

ArgQuery(arg) == SubSeq(arg, IndexFrom(arg, "?", 1) + 1, Len(arg))

\* The path s lies under the path b: it is b or continues b at a "/".
Under(s, b) ==
  LET d == TrimSuffix(b, <<"/">>) IN s = d \/ HasPrefix(s, d \o <<"/">>)

\* C20: the resolved path is p when p already has the base path B as its
\* leading path prefix and B joined with p otherwise, so it always lies under
\* B and never holds B twice; p's query string is kept verbatim.
C20_PathJoinedUnderBase ==
  reqURL # NoURL =>
    LET p == ArgPath(reqURL.arg) IN
    /\ reqURL.Path = IF Under(p, basePath) THEN p
                     ELSE TrimSuffix(basePath, <<"/">>) \o p
    /\ Under(reqURL.Path, basePath)
    /\ reqURL.RawQuery = ArgQuery(reqURL.arg)

\* ===================================================== multipart builder
\* One NewMultipartRequest call, Read call by Read call, and the network
\* calls made afterwards with the request it returned.
\* Longest files argument explored.
MaxFiles == 3

\* What a file's Reader yields; "nil" marks a file whose Reader is nil.
FileContents == {<<>>, <<"x">>, <<"x", "y">>}

MultipartFiles ==
  { [FieldName |-> "files", FileName |-> "a.txt", Reader |-> r, Content |-> c] :
      r \in {"set"}, c \in FileContents }
  \cup { [FieldName |-> "files", FileName |-> "a.txt", Reader |-> "nil", Content |-> <<>>] }

FileArgs == UNION { [1..k -> MultipartFiles] : k \in 0..MaxFiles }

MultipartError(text) == [err |-> text, req |-> FALSE, payload |-> <<>>]

InitMultipart ==
  /\ IdleDo /\ IdleBackoff /\ IdleReplay /\ IdleRate /\ IdlePath
  /\ IdleMultipart /\ IdleDecode /\ IdleList /\ IdleTask

\* NewMultipartRequest(ctx, method, path, fs) up to the range loop: the
\* writer is made on an empty buffer, an empty fs is refused.
CallNewMultipartRequest(fs, b) ==
  /\ mpc = "new"
  /\ mpFiles' = fs
  /\ fileReads' = [i \in 1..Len(fs) |-> 0]
  /\ mw' = [boundary |-> b, buf |-> <<>>]
  /\ IF Len(fs) = 0
     THEN /\ mpResult' = MultipartError("at least one file is required")
          /\ mpc' = "returned" /\ fileIdx' = 0
     ELSE /\ mpc' = "range" /\ fileIdx' = 1 /\ mpResult' = mpResult
  /\ UNCHANGED <<mpNet, notMultipart>>

\* One turn of the range loop up to io.Copy: the file's Reader is tested,
\* then CreateFormFile writes the part's header.
RangeFile ==
  /\ mpc = "range"
  /\ fileIdx <= Len(mpFiles)
  /\ IF mpFiles[fileIdx].Reader = "nil"
     THEN /\ mpResult' = MultipartError("reader is nil for file")
          /\ mpc' = "returned"
          /\ UNCHANGED mw
     ELSE /\ mw' = [mw EXCEPT !.buf = @ \o (IF fileIdx > 1 THEN <<"\r\n">> ELSE <<>>)
                     \o <<"--" \o mw.boundary, "\r\n",
                          "Content-Disposition: form-data; name=" \o mpFiles[fileIdx].FieldName
                            \o "; filename=" \o mpFiles[fileIdx].FileName, "\r\n",
                          "Content-Type: application/octet-stream", "\r\n", "\r\n">>]
          /\ mpc' = "copy"
          /\ UNCHANGED mpResult
  /\ UNCHANGED <<mpFiles, fileReads, fileIdx, mpNet, notMultipart>>

\* io.Copy calls Read on the file's Reader: the next byte goes to the part,
\* or the Reader is at its end and the loop goes to the next file.
CopyRead ==
  /\ mpc = "copy"
  /\ fileReads' = [fileReads EXCEPT ![fileIdx] = @ + 1]
  /\ IF fileReads[fileIdx] < Len(mpFiles[fileIdx].Content)
     THEN /\ mw' = [mw EXCEPT !.buf = @ \o <<mpFiles[fileIdx].Content[fileReads[fileIdx] + 1]>>]
          /\ UNCHANGED <<fileIdx, mpc>>
     ELSE /\ fileIdx' = fileIdx + 1 /\ mpc' = "range"
          /\ UNCHANGED mw
  /\ UNCHANGED <<mpFiles, mpResult, mpNet, notMultipart>>

\* The Read call fails: "copy file content".
CopyFails ==
  /\ mpc = "copy"
  /\ fileReads' = [fileReads EXCEPT ![fileIdx] = @ + 1]
  /\ mpResult' = MultipartError("copy file content")
  /\ mpc' = "returned"
  /\ UNCHANGED <<mpFiles, mw, fileIdx, mpNet, notMultipart>>

\* After the loop: mw.Close, payload = buf.Bytes(), the request is returned.
CloseWriter ==
  /\ mpc = "range"
  /\ fileIdx > Len(mpFiles)
  /\ mw' = [mw EXCEPT !.buf = @ \o <<"\r\n", "--" \o mw.boundary \o "--", "\r\n">>]
  /\ mpResult' = [err |-> "", req |-> TRUE, payload |-> mw'.buf]
  /\ mpc' = "returned"
  /\ UNCHANGED <<mpFiles, fileReads, fileIdx, mpNet, notMultipart>>

\* The caller gives the returned request to Do, which sends it.
SendMultipart ==
  /\ mpc = "returned"
  /\ mpResult.req
  /\ mpNet < MaxSends
  /\ mpNet' = mpNet + 1
  /\ UNCHANGED <<mpFiles, fileReads, mw, fileIdx, mpc, mpResult, notMultipart>>

NextMultipart ==
  \/ \E fs \in FileArgs, b \in Boundaries : CallNewMultipartRequest(fs, b)
  \/ RangeFile
  \/ CopyRead
  \/ CopyFails
  \/ CloseWriter
  \/ SendMultipart

SpecMultipart == InitMultipart /\ [][NextMultipart]_vars

\* The files argument is empty or lists a file without a content stream.
Unusable == mpFiles = <<>> \/ \E i \in DOMAIN mpFiles : mpFiles[i].Reader = "nil"

\* C21: with an empty file list, or a file without a content stream at any
\* position of a list of any length, the call returns an error and no
\* request, and when it fails no file's content stream has been read and no
\* network call has been made.
C21_FailsBeforeEncoding ==
  (mpc = "returned" /\ Unusable) =>
    /\ mpResult.err # "" /\ ~mpResult.req
    /\ \A i \in DOMAIN mpFiles : fileReads[i] = 0
    /\ mpNet = 0

\* ========================================================= error decoding
\* decodeError on the response of a Do call that ends with a status outside
\* 2xx, for the envelopes and the other bodies of the model.
ErrorStatuses == {StatusNotFound, StatusTooManyRequests, StatusInternalServerError}

ErrorBodies == Envelopes \cup {"", BodyBad, BodyBlank, BodyOther}

InitDecode ==
  /\ IdleDo /\ IdleBackoff /\ IdleReplay /\ IdleRate /\ IdlePath /\ IdleMultipart
  /\ IdleList /\ IdleTask
  /\ errResp \in [status : ErrorStatuses, body : ErrorBodies, readErr : BOOLEAN]
  /\ errPath = "" /\ errOut = NoResult

\* A status that is not retried: decodeError reads resp.Body itself.
DecodeDirect ==
  /\ errPath = ""
  /\ ~ShouldRetryStatus(errResp.status)
  /\ errPath' = "direct"
  /\ errOut' = DecodeError(errResp.status, errResp.body, errResp.readErr)
  /\ UNCHANGED <<errResp, notDecode>>

\* A 429 or 5xx with no retry left: Do has read the body, dropping any read
\* error, and closed it; decodeError reads the bytes Do read when there are
\* any, and the closed body otherwise.
DecodeExhausted ==
  /\ errPath = ""
  /\ ShouldRetryStatus(errResp.status)
  /\ errPath' = "exhausted"
  /\ errOut' = IF errResp.body # ""
               THEN DecodeError(errResp.status, errResp.body, FALSE)
               ELSE DecodeError(errResp.status, "", TRUE)
  /\ UNCHANGED <<errResp, notDecode>>

NextDecode ==
  \/ DecodeDirect
  \/ DecodeExhausted

SpecDecode == InitDecode /\ [][NextDecode]_vars

\* The decoder got the body: Do's own read drops a read error, decodeError's
\* read does not.
BodyDecoded == errPath = "exhausted" \/ (errPath = "direct" /\ ~errResp.readErr)

\* The entries of the model whose classifier names a CAPTCHA lock, and the
\* messages that mention captcha in some case.
CaptchaClassified(e) == e.ExceptionName = "CaptchaRequiredAuthenticationDeniedException"

AlreadyMentions(e) == e.Message \in {"CAPTCHA required", "solve the captcha"}

\* The entry the selection rule names.
Chosen(es) ==
  IF \E i \in 1..Len(es) : CaptchaClassified(es[i])
  THEN es[CHOOSE i \in 1..Len(es) :
            /\ CaptchaClassified(es[i])
            /\ \A j \in 1..(i - 1) : ~CaptchaClassified(es[j])]
  ELSE es[1]

\* C22: for a body with a non-empty list of entries the message comes from
\* the first CAPTCHA-classified entry if there is one and from the first
\* entry otherwise; the hint is prefixed exactly when the chosen entry is
\* CAPTCHA-classified and its message does not mention captcha in any case;
\* the error is the status followed by ": " and the message.
C22_CaptchaEntryChosen ==
  BodyDecoded =>
    \A es \in EntryLists :
      (Len(es) > 0 /\ errResp.body = EnvelopeJSON(es)) =>
        errOut = [kind |-> "api", code |-> errResp.status,
                  text |-> ": " \o (IF CaptchaClassified(Chosen(es)) /\ ~AlreadyMentions(Chosen(es))
                                    THEN "CAPTCHA verification required: " ELSE "")
                                \o Chosen(es).Message]

\* A generic entry followed by a CAPTCHA-classified one was decoded, and the
\* hint was prefixed to the second entry's message.
C22_Witness ==
  /\ errPath = "direct"
  /\ errResp.body = EnvelopeJSON(<<[Message |-> "solve the captcha", ExceptionName |-> "CaptchaException"],
                                   [Message |-> "boom",
                                    ExceptionName |-> "CaptchaRequiredAuthenticationDeniedException"]>>)
  /\ errOut.text = ": CAPTCHA verification required: boom"

\* The body is no envelope with at least one entry.
NotEnvelope == ~\E es \in EntryLists : Len(es) > 0 /\ errResp.body = EnvelopeJSON(es)

StatusAlone == [kind |-> "api", code |-> errResp.status, text |-> ""]

StatusAndBody == [kind |-> "api", code |-> errResp.status, text |-> ": " \o TrimSpace(errResp.body)]

\* C23 as stated: a body that is no envelope with entries gives the status
\* followed by the trimmed raw body, and an empty body the status alone.
C23_FallbackToRawBody ==
  (errPath # "" /\ NotEnvelope) =>
    errOut = IF errResp.body = "" THEN StatusAlone ELSE StatusAndBody

\* C23, amended: a body that is no envelope with entries gives the status
\* followed by the trimmed raw body, and the status alone when the body is
\* empty or when decodeError's own read of the body fails; a read failure in
\* the read Do makes before a retry decision is dropped, and what was read
\* counts as the body.
C23_FallbackWhenBodyRead ==
  (errPath # "" /\ NotEnvelope) =>
    errOut = IF errResp.body = "" \/ (errPath = "direct" /\ errResp.readErr)
             THEN StatusAlone ELSE StatusAndBody

\* A 404 whose body "oops\n" was read to its end was decoded.
C23_Witness ==
  /\ errPath = "direct" /\ ~errResp.readErr
  /\ errResp.body = BodyBad
  /\ errOut.text = ": oops"

\* ==================================================== diff-stat fan-out
\* runList after ListPullRequests: one goroutine per item fetches the pull
\* request's diff stats, at most MaxConcurrent of them at a time.
\* What GetPRDiffStats returns for the pull request id when it succeeds.
DiffStats(id) == [k \in 1..(id % 3) |-> [LinesAdded |-> id + k, LinesRemoved |-> k]]

RECURSIVE TotalAdds(_, _)
TotalAdds(stats, k) ==
  IF k > Len(stats) THEN 0 ELSE stats[k].LinesAdded + TotalAdds(stats, k + 1)

RECURSIVE TotalDels(_, _)
TotalDels(stats, k) ==
  IF k > Len(stats) THEN 0 ELSE stats[k].LinesRemoved + TotalDels(stats, k + 1)

\* The item runList makes of the pull request id before the fan-out.
NewItem(id) == [ID |-> id, Files |-> 0, Additions |-> 0, Deletions |-> 0]

InitList ==
  /\ IdleDo /\ IdleBackoff /\ IdleReplay /\ IdleRate /\ IdlePath
  /\ IdleMultipart /\ IdleDecode /\ IdleTask
  /\ \E n \in 0..MaxPRs :
       /\ items = [i \in 1..n |-> NewItem(i)]
       /\ fetch = [i \in 1..n |-> "none"]
  /\ sem = 0 /\ mu = 0 /\ loopI = 1 /\ listPc = "range"
  /\ gErr = FALSE /\ warnings = {}

\* Mutant of Spawn: the goroutine is started without a token of sem.
Spawn_NoSemaphore ==
  /\ listPc = "range"
  /\ loopI <= Len(items)
  /\ fetch' = [fetch EXCEPT ![loopI] = "fetching"]
  /\ loopI' = loopI + 1
  /\ UNCHANGED <<items, sem, mu, listPc, gErr, warnings, notList>>

\* One turn of the range loop: sem <- struct{}{} waits for room in the
\* channel, g.Go starts the goroutine of item loopI, which calls
\* GetPRDiffStats.
Spawn ==
  /\ listPc = "range"
  /\ loopI <= Len(items)
  /\ sem < MaxConcurrent
  /\ sem' = sem + 1
  /\ fetch' = [fetch EXCEPT ![loopI] = "fetching"]
  /\ loopI' = loopI + 1
  /\ UNCHANGED <<items, mu, listPc, gErr, warnings, notList>>

\* The loop is over; runList goes to g.Wait().
EndRange ==
  /\ listPc = "range"
  /\ loopI > Len(items)
  /\ listPc' = "wait"
  /\ UNCHANGED <<items, sem, mu, fetch, loopI, gErr, warnings, notList>>

\* Mutant of FetchFails: the goroutine returns the error to the errgroup.
FetchFails_ReturnsError(i) ==
  /\ fetch[i] = "fetching"
  /\ gErr' = TRUE
  /\ fetch' = [fetch EXCEPT ![i] = "failed"]
  /\ sem' = sem - 1
  /\ UNCHANGED <<items, mu, loopI, listPc, warnings, notList>>

\* GetPRDiffStats of item i returns an error: the goroutine writes the
\* warning, returns nil and gives its token back.
FetchFails(i) ==
  /\ fetch[i] = "fetching"
  /\ warnings' = warnings \cup {items[i].ID}
  /\ fetch' = [fetch EXCEPT ![i] = "failed"]
  /\ sem' = sem - 1
  /\ UNCHANGED <<items, mu, loopI, listPc, gErr, notList>>

\* GetPRDiffStats of item i returns the diff stats; the goroutine has its
\* totals and goes to mu.Lock().
FetchSucceeds(i) ==
  /\ fetch[i] = "fetching"
  /\ fetch' = [fetch EXCEPT ![i] = "fetched"]
  /\ UNCHANGED <<items, sem, mu, loopI, listPc, gErr, warnings, notList>>

\* mu.Lock() in the goroutine of item i.
LockItems(i) ==
  /\ fetch[i] = "fetched"
  /\ mu = 0
  /\ mu' = i
  /\ fetch' = [fetch EXCEPT ![i] = "locked"]
  /\ UNCHANGED <<items, sem, loopI, listPc, gErr, warnings, notList>>

\* The goroutine of item i writes its totals to items[i], unlocks mu,
\* returns nil and gives its token back.
UpdateItem(i) ==
  /\ fetch[i] = "locked"
  /\ items' = [items EXCEPT ![i] =
                 [@ EXCEPT !.Files = Len(DiffStats(items[i].ID)),
                           !.Additions = TotalAdds(DiffStats(items[i].ID), 1),
                           !.Deletions = TotalDels(DiffStats(items[i].ID), 1)]]
  /\ mu' = 0
  /\ fetch' = [fetch EXCEPT ![i] = "ok"]
  /\ sem' = sem - 1
  /\ UNCHANGED <<loopI, listPc, gErr, warnings, notList>>

\* g.Wait() returns once every goroutine has returned; runList writes the
\* items, or returns the errgroup's error.
WaitReturns ==
  /\ listPc = "wait"
  /\ \A i \in DOMAIN fetch : fetch[i] \in {"ok", "failed"}
  /\ listPc' = IF gErr THEN "error" ELSE "output"
  /\ UNCHANGED <<items, sem, mu, fetch, loopI, gErr, warnings, notList>>

NextList ==
  \/ Spawn
  \/ EndRange
  \/ \E i \in DOMAIN fetch : FetchFails(i)
  \/ \E i \in DOMAIN fetch : FetchSucceeds(i)
  \/ \E i \in DOMAIN fetch : LockItems(i)
  \/ \E i \in DOMAIN fetch : UpdateItem(i)
  \/ WaitReturns

SpecList == InitList /\ [][NextList]_vars

\* The Go scheduler runs every goroutine that can run; GetPRDiffStats
\* returns (the HTTP client has a timeout).
SpecListFair == SpecList /\ WF_vars(NextList)

\* Fetches in flight: goroutines inside GetPRDiffStats.
InFlight == { i \in DOMAIN fetch : fetch[i] = "fetching" }

\* C24: at every moment at most 5 diff-stat fetches are in flight, and a
\* fetch starts only when fewer than 5 are running.
C24_AtMostFiveInFlight ==
  /\ [](Cardinality(InFlight) <= 5)
  /\ [][\A i \in DOMAIN fetch :
          (fetch[i] = "none" /\ fetch'[i] = "fetching") => Cardinality(InFlight) < 5]_vars

\* Five fetches are in flight and a sixth pull request waits for its turn.
C24_Witness ==
  /\ Cardinality(InFlight) = 5
  /\ \E i \in DOMAIN fetch : fetch[i] = "none"

\* C25: the wait always ends with the output written, and the output holds
\* one item per pull request, every fetch having run to its end: zero counts
\* for a failed fetch, the pull request's own totals for a successful one.
C25_FailuresDoNotAbort ==
  /\ <>(listPc = "output")
  /\ [](listPc = "output" =>
          \A i \in DOMAIN items :
            /\ items[i].ID = i
            /\ fetch[i] \in {"ok", "failed"}
            /\ fetch[i] = "failed" =>
                 items[i].Files = 0 /\ items[i].Additions = 0 /\ items[i].Deletions = 0
            /\ fetch[i] = "ok" =>
                 /\ items[i].Files = Len(DiffStats(i))
                 /\ items[i].Additions = TotalAdds(DiffStats(i), 1)
                 /\ items[i].Deletions = TotalDels(DiffStats(i), 1))

\* The output was written after the first fetch failed and a later one
\* succeeded.
C25_Witness ==
  /\ listPc = "output"
  /\ Len(items) >= 3
  /\ fetch[1] = "failed" /\ fetch[2] = "ok" /\ items[2].Files = 2
  /\ 1 \in warnings

\* ================================================== Do: order of the steps
\* The recorded quota is used up and its reset lies ahead of the clock.
Exhausted(rl) == rl.Remaining <= 1 /\ rl.ResetSet /\ rl.Reset > now

\* A response arrives in this step.
Received == pc = "net" /\ pc' # "net" /\ resp' # NoResp

\* The step acts on the outcome of the attempt: it retries, arms the backoff
\* timer, stores in the cache, writes to the target or returns.
ActsOnOutcome ==
  \/ attempts' # attempts \/ fails' # fails \/ delay' # delay
  \/ cache' # cache \/ out' # out
  \/ (pc' = "done" /\ pc # "done")

\* C26: a response first updates the rate-limit state from its headers, then
\* the throttle decision is taken on the updated state and its sleep slept,
\* and only then is the status acted on; a transport error does neither. So
\* a 429/5xx that reports a used-up quota sleeps in the throttle before its
\* backoff timer is armed.
C26_UpdateThrottleThenStatus ==
  /\ [][Received =>
          /\ \E h \in QuotaHeaders : rate' = UpdateRateLimit(rate, h)
          /\ sleep' = (IF Exhausted(rate') THEN Min(rate'.Reset - now, 5) ELSE 0)
          /\ pc' = (IF Exhausted(rate') THEN "throttle" ELSE "status")
          /\ ~ActsOnOutcome]_vars
  /\ [][pc = "throttle" => (pc' \in {"throttle", "status"} /\ rate' = rate /\ ~ActsOnOutcome)]_vars
  /\ [][(pc = "net" /\ pc' # "net" /\ resp' = NoResp)
          => (rate' = rate /\ sleep' = sleep /\ pc' \notin {"throttle", "status"})]_vars
  /\ [][(pc' = "backoff" /\ pc # "backoff" /\ resp' # NoResp) => pc = "status"]_vars
  /\ [][(ActsOnOutcome /\ pc \notin {"idle", "done"}) => pc \in {"status", "net", "attempt", "backoff"}]_vars

\* A 429 that reported a used-up quota was slept on by the throttle, and the
\* backoff timer of its retry is armed after that sleep.
C26_Witness ==
  /\ pc = "backoff" /\ netErr = ""
  /\ resp.status = StatusTooManyRequests
  /\ rate.Remaining = 0 /\ sleep = 1 /\ now = 1 /\ delay > 0

\* ===================================================== Do: termination
\* The steps of a Do call that is under way: the network call returns, the
\* timers fire, the code between them runs.
DoStep ==
  \/ Attempt
  \/ \E e \in NetErrs : NetError(e)
  \/ \E r \in Responses, h \in QuotaHeaders : NetResponse(r, h)
  \/ ThrottleWake
  \/ NotModified
  \/ RetryableStatus
  \/ ErrorStatus
  \/ SuccessNil
  \/ SuccessWriter
  \/ SuccessJSON
  \/ BackoffTimer

\* A client in use: what earlier calls may have left in its cache and its
\* rate-limit state, at any time of the clock.
InitFair ==
  /\ enableCache \in BOOLEAN
  /\ maxAttempts \in {NewMaxAttempts(o) : o \in 0..MaxM}
  /\ \E e \in {NoEntry, [ok |-> TRUE, etag |-> "E1", body |-> BodyOk],
               [ok |-> TRUE, etag |-> "E2", body |-> BodyHi]} :
       cache = [k \in Methods \X URLs |->
                  IF enableCache /\ k = <<"GET", "/a">> THEN e ELSE NoEntry]
  /\ rate \in {UpdateRateLimit(ZeroRate, h) : h \in QuotaHeaders}
  /\ now \in 0..MaxNow
  /\ pc = "idle" /\ req = NoReq /\ v = "nil" /\ ctxErr = "" /\ attempts = 0
  /\ inm = "" /\ resp = NoResp /\ netErr = "" /\ delay = 0 /\ sleep = 0
  /\ result = NoResult /\ out = "" /\ netCalls = 0 /\ fails = 0 /\ calls = 0
  /\ prevGet = [u \in URLs |-> NoPrev]
  /\ IdleBackoff /\ IdleReplay /\ IdleRate /\ IdlePath /\ IdleRest

\* One Do call on that client, under any server and any cancellation.
NextFair ==
  \/ \E r \in Requests, t \in Targets : calls = 0 /\ StartDo(r, t)
  \/ DoStep
  \/ \E c \in Causes : CancelInBackoff(c)
  \/ \E c \in Causes : Cancel(c)

\* Every network call returns and every timer fires; the caller may start
\* the call and cancel its context when it likes, or never.
SpecFair == InitFair /\ [][NextFair]_vars /\ WF_vars(DoStep)

\* C27: every Do call returns: whatever the server answers and whenever the
\* context is cancelled, the cycle of attempt and backoff is left after
\* finitely many turns, with success or with a terminal failure.
C27_DoReturns ==
  /\ (pc \notin {"idle", "done"}) ~> (pc = "done" /\ result # NoResult)
  /\ [](attempts < maxAttempts)

\* A call returned after going through the backoff cycle as often as the
\* policy allows.
C27_Witness ==
  /\ pc = "done" /\ maxAttempts = 3 /\ attempts = 2 /\ fails = 3
  /\ result.kind = "api" /\ result.code = StatusInternalServerError

\* ================================================ Do: retry and the method
\* C30: whether a failed attempt is retried depends on the attempts made and
\* on the context, never on the method: a POST or DELETE that keeps failing
\* with transport errors or 429/5xx is sent MaxAttempts times by one call.
C30_RetryWhateverTheMethod ==
  /\ [][(pc \in {"net", "status"} /\ fails' = fails + 1)
          => ((pc' \in {"attempt", "backoff"}) <=> (attempts + 1 < maxAttempts /\ ctxErr = ""))]_vars
  /\ []((pc = "done" /\ req.method # "GET" /\ ctxErr = "" /\ netCalls >= 1 /\ fails = netCalls)
          => netCalls = maxAttempts)

\* A POST with a body was sent three times by one call, each attempt failing.
C30_Witness ==
  /\ pc = "done" /\ req.method = "POST" /\ req.body = "replayable"
  /\ maxAttempts = 3 /\ netCalls = 3 /\ fails = 3
  /\ resp.status = StatusInternalServerError

\* ================================================ the cache, shared
\* Goroutines call Do with GET /a on one client whose cache is enabled.
\* Every access to c.cache is made under c.cacheMu, so each is one step.
Callers == {"g1", "g2"}

GetA == [method |-> "GET", url |-> "/a", body |-> "none"]

\* What the server answers to GET /a: two versions of the resource, a
\* version without ETag, not modified, not found.
CacheResponses ==
  { Response(StatusOK, "E1", BodyOk, FALSE, ""),
    Response(StatusOK, "E2", BodyHi, FALSE, ""),
    Response(StatusOK, "", BodyOk, FALSE, ""),
    Response(StatusOK, "E1", "", FALSE, ""),
    Response(StatusNotModified, "", "", FALSE, ""),
    Response(StatusNotFound, "", BodyErr, FALSE, "") }

NewTask == [pc |-> "idle", v |-> "nil", inm |-> "", resp |-> NoResp,
            err |-> NoResult, out |-> "", n |-> 0]

InitCache ==
  /\ enableCache = TRUE /\ maxAttempts = DefaultMaxAttempts /\ FreshDo
  /\ IdleBackoff /\ IdleReplay /\ IdleRate /\ IdlePath
  /\ IdleMultipart /\ IdleDecode /\ IdleList
  /\ task = [p \in Callers |-> NewTask]

\* Goroutine p calls Do(req, target) with a GET for /a.
CallDo(p, target) ==
  /\ task[p].pc \in {"idle", "done"}
  /\ task[p].n < MaxGets
  /\ task' = [task EXCEPT ![p] = [NewTask EXCEPT !.pc = "clone", !.v = target,
                                                 !.n = task[p].n + 1]]
  /\ UNCHANGED <<cache, notTask>>

\* cachedETag: the attempt gets the entry's ETag as If-None-Match, and is sent.
AttachETag(p) ==
  /\ task[p].pc = "clone"
  /\ task' = [task EXCEPT ![p].inm = CachedETag(GetA), ![p].pc = "net"]
  /\ UNCHANGED <<cache, notTask>>

\* The server answers the attempt of p.
Answer(p, r) ==
  /\ task[p].pc = "net"
  /\ task' = [task EXCEPT ![p].resp = r, ![p].pc = "status"]
  /\ UNCHANGED <<cache, notTask>>

\* 304: applyCachedResponse looks the entry up and hands its body over.
ServeCached(p) ==
  /\ task[p].pc = "status"
  /\ task[p].resp.status = StatusNotModified
  /\ task' = [task EXCEPT ![p].err = ApplyCachedResponse(GetA, task[p].v).err,
                          ![p].out = ApplyCachedResponse(GetA, task[p].v).out,
                          ![p].pc = "done"]
  /\ UNCHANGED <<cache, notTask>>

\* A status outside 2xx other than 304: decodeError.
ServeError(p) ==
  /\ task[p].pc = "status"
  /\ task[p].resp.status # StatusNotModified
  /\ ~Is2xx(task[p].resp.status)
  /\ task' = [task EXCEPT ![p].err = DecodeError(task[p].resp.status, task[p].resp.body, FALSE),
                          ![p].pc = "done"]
  /\ UNCHANGED <<cache, notTask>>

\* 2xx: v == nil discards the body, a writer gets it copied, a JSON value has
\* it stored in the cache and decoded.
ServeBody(p) ==
  /\ task[p].pc = "status"
  /\ Is2xx(task[p].resp.status)
  /\ LET r == task[p].resp IN
     /\ cache' = IF task[p].v = "nil" THEN StoreCache(GetA, "", r.etag)
                 ELSE IF task[p].v = "json" /\ r.etag # "" THEN StoreCache(GetA, r.body, r.etag)
                 ELSE cache
     /\ task' = [task EXCEPT
          ![p].err = IF task[p].v = "json" /\ r.body # "" /\ ~JSONUnmarshal(r.body).ok
                     THEN [kind |-> "json", code |-> 0, text |-> ""] ELSE NilErr,
          ![p].out = IF task[p].v = "writer" THEN r.body
                     ELSE IF task[p].v = "json" /\ r.body # "" /\ JSONUnmarshal(r.body).ok
                          THEN JSONUnmarshal(r.body).val ELSE "",
          ![p].pc = "done"]
  /\ UNCHANGED notTask

NextCache ==
  \/ \E p \in Callers, t \in Targets : CallDo(p, t)
  \/ \E p \in Callers : AttachETag(p)
  \/ \E p \in Callers, r \in CacheResponses : Answer(p, r)
  \/ \E p \in Callers : ServeCached(p)
  \/ \E p \in Callers : ServeError(p)
  \/ \E p \in Callers : ServeBody(p)

SpecCache == InitCache /\ [][NextCache]_vars

\* C28: an entry, once there, is there in every later state, and holds an
\* ETag and a body stored together; so a 304 answering an If-None-Match the
\* client attached from its cache finds an entry.
C28_NoEviction ==
  /\ [][\A k \in DOMAIN cache : cache[k].ok => cache'[k].ok]_vars
  /\ [](\A k \in DOMAIN cache : cache[k].ok =>
          \E r \in CacheResponses :
            r.etag # "" /\ r.body # "" /\ cache[k].etag = r.etag /\ cache[k].body = r.body)
  /\ [](\A p \in Callers :
          (task[p].pc = "done" /\ task[p].resp.status = StatusNotModified /\ task[p].inm # "")
            => task[p].err.kind # "cachemiss")

\* A 304 answered the ETag the client attached, after another goroutine had
\* received a response without ETag, and the entry was found.
C28_Witness ==
  /\ task["g1"].pc = "done" /\ task["g1"].resp.status = StatusNotModified
  /\ task["g1"].inm = "E1" /\ task["g1"].v = "writer" /\ task["g1"].out = BodyOk
  /\ task["g2"].pc = "done" /\ task["g2"].resp.etag = "" /\ Is2xx(task["g2"].resp.status)

\* The body the server sends with an ETag.
BodyOfETag(e) == IF e = "E1" THEN BodyOk ELSE IF e = "E2" THEN BodyHi ELSE ""

\* C29: a caller answered 304 is given the body that was stored with the
\* ETag its attempt sent in If-None-Match.
C29_BodyOfSentETag ==
  \A p \in Callers :
    (task[p].pc = "done" /\ task[p].resp.status = StatusNotModified
       /\ task[p].inm # "" /\ task[p].v # "nil")
      => task[p].out = IF task[p].v = "writer" THEN BodyOfETag(task[p].inm)
                       ELSE JSONUnmarshal(BodyOfETag(task[p].inm)).val

====
